---------------------------- MODULE Spec2Model ----------------------------
(***************************************************************************)
(* A model of the identity resolver and the incremental sync engine of     *)
(* deepghs/anime_sites (sites/fancaps, sites/subsplease, sites/utils).     *)
(*                                                                         *)
(* Python values are modelled as follows.  An optional value is a tuple:   *)
(* None is <<>> and a present value v is <<v>>.  A text is a sequence of   *)
(* symbols (one-symbol strings); a line of a reply is a text from which    *)
(* the surrounding whitespace has been stripped, and the whitespace that   *)
(* the regular expressions absorb around the colon is left out.            *)
(***************************************************************************)
EXTENDS Integers, Sequences, FiniteSets, TLC

VARIABLES
    mode,        \* which procedure this behaviour runs
    pc,          \* position of the running procedure
    output,      \* _parse_output: the reply text, a sequence of lines
    pinfo,       \* _parse_output: the outcome (returned dict or raised)
    site,        \* "fancaps" or "subsplease": whose code runs
    search_result, \* the candidate list of the catalog search
    stream,      \* _ask_chatgpt: what the judgment service answers, request
                 \* by request (a reply text or a failure of the call)
    ask,         \* _ask_chatgpt: the outcome of the call
    vals,        \* get_full_info_for_*: the judgments of the attempts so far
    mal_ids,     \* get_full_info_for_*: votes per mal_id, in insertion order
    d_mal_vals,  \* get_full_info_for_*: first judgment per mal_id, in
                 \* insertion order
    full_info,   \* get_full_info_for_*: the resolution returned
    searches,    \* get_full_info_for_*: catalog searches made so far
    sync_mode,   \* sync: the sync_mode argument of this run
    change_items, \* rp.sync: the (page, mal_id) pairs of the operator
    d_animes,    \* sync: the in-memory table, page_id -> row (or None)
    has_update,  \* sync: a row was upserted since the last push
    _last_update, \* sync: time of the last completed flush, or None
    _total_count, \* sync: number of rows at the last flush
    now,         \* time.time(), in seconds since the run started
    limiter,     \* time of the limiter's last acquired item, or None
    repo,        \* the table.parquet of the dataset repository: its rows
    idx,         \* sync: position of the loop in the upstream listing
    calls,       \* pages the resolver was invoked for in this run
    errors,      \* resolutions that raised in this run
    pushes,      \* uploads of this run
    run,         \* number of the run of sync
    items,       \* parallel_call: the work items, in the order submitted
    tasks,       \* parallel_call: position of the task of each submitted item
    invoked,     \* parallel_call: number of calls of fn per item
    pg,          \* parallel_call: the completed-count of the progress bar
    files,       \* _deploy: state of the cover file of each mal_id on disk
    d_mal_images, \* _deploy: mal_ids whose cover is known to be on disk
    readme,      \* _deploy: the report written by this flush, or None
    assets,      \* the cover files in the dataset repository
    flush,       \* number of the flush
    title,       \* get_items_from_myanimelist: the query
    jikan_items, \* the result the catalog API gives when it answers
    queries,     \* the queries sent to the catalog API so far
    response,    \* the last response of the catalog API
    slept,       \* seconds spent in time.sleep
    retval,      \* get_items_from_myanimelist: the outcome of the call
    rows,        \* erairaws: number of rows of the anime list page
    counted,     \* iter_anime_items: its count, the rows yielded so far
    anime_items, \* erairaws sync: length of the list built from the rows
    fetched,     \* erairaws sync: detail pages fetched
    anime_records, \* erairaws sync: length of anime_records
    remote,      \* erairaws sync: state of the dataset repository
    subs_info,   \* get_full_info_for_replace: the releases of the show
    mal_info,    \* get_full_info_for_replace: the full catalog record
    rp_info,     \* get_full_info_for_replace: the judgment returned
    environ,     \* os.environ: the names of the variables that are set
    detail_page, \* get_anime_info: the anime page that is fetched
    feed_queries, \* get_anime_info: the requests sent through session_rss
    anime_info,  \* get_anime_info: the outcome of the call
    infos,       \* _fn_x: what get_anime_info gave for each item, or None
    lock,        \* _fn_x: the task that holds the lock, or 0
    anime_record_list, \* erairaws sync: the list anime_records
    item_records, \* erairaws sync: the list item_records
    cursor       \* _fn_x: per task, the resources appended so far

parseVars == <<output, pinfo>>
askVars == <<stream, ask>>
voteVars == <<vals, mal_ids, d_mal_vals, full_info, searches>>
syncVars == <<sync_mode, change_items, d_animes, has_update, _last_update,
              _total_count, now, limiter, repo, idx, calls, errors, pushes,
              run>>
callVars == <<items, tasks, invoked, pg>>
flushVars == <<files, d_mal_images, readme, assets, flush>>
malVars == <<title, jikan_items, queries, response, slept, retval>>
eraiVars == <<rows, counted, anime_items, fetched, anime_records, remote>>
rpVars == <<subs_info, mal_info, rp_info>>
envVars == <<environ>>
infoVars == <<detail_page, feed_queries, anime_info>>
\* the variables declared after environ
appendVars == <<infos, lock, anime_record_list, item_records, cursor>>
afterEnvVars == <<infoVars, appendVars>>
\* the variables declared after those of get_full_info_for_replace
laterVars == <<envVars, afterEnvVars>>
extVars == <<callVars, flushVars, malVars, eraiVars, rpVars, laterVars>>
\* the variables declared after those of the flush, and after those of
\* get_items_from_myanimelist
afterFlushVars == <<malVars, eraiVars, rpVars, laterVars>>
afterMalVars == <<eraiVars, rpVars, laterVars>>
vars == <<mode, pc, output, pinfo, site, search_result, stream, ask,
          vals, mal_ids, d_mal_vals, full_info, searches, sync_mode,
          change_items,
          d_animes, has_update, _last_update, _total_count, now, limiter,
          repo, idx, calls, errors, pushes, run, extVars>>

None == <<>>
Some(v) == <<v>>

\* the variables of sync while no sync is modelled
IdleSync ==
    /\ sync_mode = FALSE /\ change_items = <<>> /\ d_animes = <<>>
    /\ has_update = FALSE /\ _last_update = None /\ _total_count = 0
    /\ now = 0 /\ limiter = None /\ repo = <<>> /\ idx = 0
    /\ calls = <<>> /\ errors = 0 /\ pushes = 0 /\ run = 0

\* the variables of parallel_call while no call is modelled
IdleCall == items = <<>> /\ tasks = <<>> /\ invoked = <<>> /\ pg = 0

\* the variables of the flush while no flush is modelled
IdleFlush ==
    /\ files = <<>> /\ d_mal_images = {} /\ readme = None /\ assets = {}
    /\ flush = 0

\* the variables of get_items_from_myanimelist while it is not modelled
IdleMal ==
    /\ title = <<>> /\ jikan_items = <<>> /\ queries = <<>>
    /\ response = None /\ slept = 0 /\ retval = None

\* the variables of erairaws sync while it is not modelled
IdleErai ==
    /\ rows = 0 /\ counted = 0 /\ anime_items = 0 /\ fetched = 0
    /\ anime_records = 0 /\ remote = "none"

\* the variables of get_full_info_for_replace while it is not modelled
IdleRp == subs_info = <<>> /\ mal_info = None /\ rp_info = None

\* os.environ while no credential is modelled
IdleEnv == environ = {}

\* the variables of get_anime_info while it is not modelled
IdleInfo == detail_page = None /\ feed_queries = <<>> /\ anime_info = None

\* the variables of _fn_x while the workers of erairaws sync are not modelled
IdleAppend ==
    /\ infos = <<>> /\ lock = 0 /\ anime_record_list = <<>>
    /\ item_records = <<>> /\ cursor = <<>>

IdleAfterEnv == IdleInfo /\ IdleAppend

IdleLater == IdleEnv /\ IdleAfterEnv

\* os.environ[name] of a name that is not set
KeyError == "KeyError"

\* OpenAI(base_url=os.environ['LLM_SITE'], api_key=os.environ['LLM_API_KEY'])
get_openai_client(env) ==
    IF {"LLM_SITE", "LLM_API_KEY"} \subseteq env THEN "client" ELSE KeyError

\* get_session of erairaws/info.py: the cookie is read unless no_login
get_session(env, no_login) ==
    IF no_login \/ "ERAI_RAW_COOKIE" \in env THEN "session" ELSE KeyError

IdleAfterMal == IdleErai /\ IdleRp /\ IdleLater
IdleAfterFlush == IdleMal /\ IdleAfterMal

IdleExt == IdleCall /\ IdleFlush /\ IdleAfterFlush


---------------------------------------------------------------------------
(* Texts.                                                                  *)

Digits == {"0", "1", "2", "3", "4", "5", "6", "7", "8", "9"}

DigitVal == [c \in Digits |->
    CASE c = "0" -> 0 [] c = "1" -> 1 [] c = "2" -> 2 [] c = "3" -> 3
      [] c = "4" -> 4 [] c = "5" -> 5 [] c = "6" -> 6 [] c = "7" -> 7
      [] c = "8" -> 8 [] c = "9" -> 9]

\* the text s from position k on
Tail2(s, k) == SubSeq(s, k, Len(s))

\* r'\d+': a non-empty run of digits
IsDigitRun(s) == Len(s) > 0 /\ \A k \in 1..Len(s) : s[k] \in Digits

\* r'\d+|null'
MatchesIntOrNull(s) == IsDigitRun(s) \/ s = <<"null">>

RECURSIVE DecimalValue(_)
DecimalValue(s) ==
    IF Len(s) = 0 THEN 0
    ELSE 10 * DecimalValue(SubSeq(s, 1, Len(s) - 1)) + DigitVal[s[Len(s)]]

\* json.loads on a text that matched r'\d+|null': the JSON grammar has no
\* number with a leading zero, so json.loads('07') raises.
json_loads(s) ==
    IF s = <<"null">> THEN [ok |-> TRUE, value |-> None]
    ELSE IF Len(s) > 1 /\ s[1] = "0" THEN [ok |-> FALSE, value |-> None]
    ELSE [ok |-> TRUE, value |-> Some(DecimalValue(s))]

---------------------------------------------------------------------------
(* _parse_output.                                                          *)

\* the line matches r'^<label>\s*:\s*(...)$' as far as the label and colon
HasLabel(line, label) == Len(line) >= 2 /\ line[1] = label /\ line[2] = ":"

Raised == [ok |-> FALSE, mal_id |-> None, title |-> None, year |-> None,
           reason |-> <<>>]

\* the parser's locals: `set` holds the names that are no longer _NOT_SET
ParseStart == [set |-> {}, mal_id |-> None, title |-> None, year |-> None,
               reason |-> <<>>, err |-> FALSE]

\* one iteration of the loop over the lines
ParseLine(st, line) ==
    IF st.err THEN st
    ELSE IF "mal_id" \notin st.set THEN
        IF line = <<>> THEN st
        ELSE IF HasLabel(line, "mal_id") /\ MatchesIntOrNull(Tail2(line, 3))
                 /\ json_loads(Tail2(line, 3)).ok
             THEN [st EXCEPT !.set = @ \cup {"mal_id"},
                             !.mal_id = json_loads(Tail2(line, 3)).value]
             ELSE [st EXCEPT !.err = TRUE]
    ELSE IF "title" \notin st.set THEN
        IF line = <<>> THEN st
        ELSE IF HasLabel(line, "title") /\ Len(line) >= 3
             THEN [st EXCEPT !.set = @ \cup {"title"},
                             !.title = Some(Tail2(line, 3))]
             ELSE [st EXCEPT !.err = TRUE]
    ELSE IF "year" \notin st.set THEN
        IF line = <<>> THEN st
        ELSE IF HasLabel(line, "year") /\ MatchesIntOrNull(Tail2(line, 3))
                 /\ json_loads(Tail2(line, 3)).ok
             THEN [st EXCEPT !.set = @ \cup {"year"},
                             !.year = json_loads(Tail2(line, 3)).value]
             ELSE [st EXCEPT !.err = TRUE]
    ELSE IF "reason" \notin st.set THEN
        IF HasLabel(line, "reason")
        THEN [st EXCEPT !.set = @ \cup {"reason"}, !.reason = Tail2(line, 3)]
        ELSE [st EXCEPT !.err = TRUE]
    ELSE [st EXCEPT !.reason = @ \o <<"\n">> \o line]

RECURSIVE ParseLines(_, _)
ParseLines(st, lines) ==
    IF Len(lines) = 0 THEN st
    ELSE ParseLines(ParseLine(st, Head(lines)), Tail(lines))

\* output.strip(): whitespace-only lines at both ends of the reply vanish
RECURSIVE StripLeft(_)
StripLeft(lines) ==
    IF Len(lines) > 0 /\ Head(lines) = <<>> THEN StripLeft(Tail(lines))
    ELSE lines

RECURSIVE StripRight(_)
StripRight(lines) ==
    IF Len(lines) > 0 /\ lines[Len(lines)] = <<>>
    THEN StripRight(SubSeq(lines, 1, Len(lines) - 1))
    ELSE lines

Strip(lines) == StripRight(StripLeft(lines))

_parse_output(text) ==
    LET st == ParseLines(ParseStart, Strip(text))
    IN  IF st.err \/ st.set # {"mal_id", "title", "year", "reason"}
        THEN Raised
        ELSE [ok |-> TRUE, mal_id |-> st.mal_id, title |-> st.title,
              year |-> st.year, reason |-> st.reason]

\* pinfo before the call
NoPinfo == [ok |-> FALSE, mal_id |-> None, title |-> None, year |-> None,
            reason |-> <<"-">>]

IdleParse == output = <<>> /\ pinfo = NoPinfo

---------------------------------------------------------------------------
(* _ask_chatgpt.                                                           *)

max_tries == 5

Sites == {"fancaps", "subsplease"}

\* Python truth of an optional integer: None and 0 are false
Truthy(v) == v # None /\ v # Some(0)

\* y or x: the second operand is preferred
OrSecondFirst(x, y) == IF Truthy(y) THEN y ELSE x

\* x or y
Or(x, y) == IF Truthy(x) THEN x ELSE y

\* d_items = {item['mal_id']: item for item in search_result}: of two items
\* with one mal_id the later one stays
InItems(sr, id) == \E k \in 1..Len(sr) : sr[k].mal_id = id

ItemOf(sr, id) ==
    sr[CHOOSE k \in 1..Len(sr) :
           sr[k].mal_id = id /\ \A j \in (k + 1)..Len(sr) : sr[j].mal_id # id]

\* a judgment that names whatever id the reply carries
JudgmentUnchecked(p, sr) ==
    IF Truthy(p.mal_id)
    THEN [mal_id |-> p.mal_id, title |-> p.title,
          year |-> IF InItems(sr, p.mal_id[1])
                   THEN Or(ItemOf(sr, p.mal_id[1]).year, p.year) ELSE p.year,
          reason |-> p.reason,
          mal |-> IF InItems(sr, p.mal_id[1])
                  THEN Some(ItemOf(sr, p.mal_id[1])) ELSE None]
    ELSE [mal_id |-> None, title |-> None, year |-> p.year,
          reason |-> p.reason, mal |-> None]

\* what _ask_chatgpt returns for a reply that parsed
Judgment(p, sr) ==
    IF Truthy(p.mal_id) /\ InItems(sr, p.mal_id[1])
    THEN [mal_id |-> p.mal_id, title |-> p.title,
          year |-> Or(ItemOf(sr, p.mal_id[1]).year, p.year),
          reason |-> p.reason, mal |-> Some(ItemOf(sr, p.mal_id[1]))]
    ELSE [mal_id |-> None, title |-> None, year |-> p.year,
          reason |-> p.reason, mal |-> None]

NoJudgment == [mal_id |-> None, title |-> None, year |-> None,
               reason |-> <<"-">>, mal |-> None]

\* The while loop, from the state (tries, requests sent so far).  In fancaps
\* the call of the service is inside the try block, in subsplease it is
\* before it, so there a failure of the call leaves _ask_chatgpt at once.
\* one request too many
TriesLeftOffByOne(tries) == tries <= max_tries

\* while tries < max_tries
TriesLeft(tries) == tries < max_tries

RECURSIVE AskLoop(_, _, _, _, _)
AskLoop(st, sr, outcomes, tries, sent) ==
    IF ~TriesLeft(tries)
    THEN [status |-> "raise", val |-> NoJudgment, requests |-> sent,
          tries |-> tries]
    ELSE LET o == outcomes[sent + 1]
             p == _parse_output(o.text)
         IN  IF o.kind = "error"
             THEN IF st = "fancaps"
                  THEN AskLoop(st, sr, outcomes, tries + 1, sent + 1)
                  ELSE [status |-> "raise", val |-> NoJudgment,
                        requests |-> sent + 1, tries |-> tries]
             ELSE IF p.ok
                  THEN [status |-> "return", val |-> Judgment(p, sr),
                        requests |-> sent + 1, tries |-> tries]
                  ELSE AskLoop(st, sr, outcomes, tries + 1, sent + 1)

_ask_chatgpt(st, sr, outcomes) == AskLoop(st, sr, outcomes, 0, 0)

(* The candidates and the service's answers given to _ask_chatgpt.         *)

Candidate(id, year) == [mal_id |-> id, year |-> year]

AskSearchResults ==
    { << Candidate(7, Some(19)), Candidate(8, None) >> }

ReplyText(idText, titleText, yearText, reasonText) ==
    << <<"mal_id", ":">> \o idText,
       <<"title", ":">> \o titleText,
       <<"year", ":">> \o yearText,
       <<"reason", ":">> \o reasonText >>

Reply(text) == [kind |-> "reply", text |-> text]

ServiceError == [kind |-> "error", text |-> <<>>]

\* a reply without its reason line, and one with a non-integer mal_id
NoReasonReply ==
    Reply(<< <<"mal_id", ":", "7">>, <<"title", ":", "x">>,
             <<"year", ":", "2", "0">> >>)

BadIdReply == Reply(ReplyText(<<"x">>, <<"x">>, <<"2", "0">>, <<"a">>))

AskOutcomes ==
    { Reply(ReplyText(<<"7">>, <<"x">>, <<"2", "0">>, <<"a">>)),
      Reply(ReplyText(<<"8">>, <<"y">>, <<"2", "1">>, <<"b">>)),
      Reply(ReplyText(<<"9">>, <<"z">>, <<"null">>, <<"c">>)),
      Reply(ReplyText(<<"null">>, <<"null">>, <<"2", "0">>, <<"d">>)),
      NoReasonReply,
      BadIdReply,
      ServiceError }

NoAsk == [status |-> "none", val |-> NoJudgment, requests |-> 0, tries |-> 0]

IdleAsk == stream = <<>> /\ ask = NoAsk

---------------------------------------------------------------------------
(* get_full_info_for_fancaps and get_full_info_for_subsplease.             *)

val_times == 5
min_val == 4

\* A Python dict is the sequence of its entries in insertion order.
DictHas(d, k) == \E j \in 1..Len(d) : d[j].key = k

DictGet(d, k) == d[CHOOSE j \in 1..Len(d) : d[j].key = k].val

DictDel(d, k) == SelectSeq(d, LAMBDA e : e.key # k)

\* mal_ids[k] += 1 on a defaultdict(lambda: 0)
DictIncr(d, k) ==
    IF DictHas(d, k)
    THEN [j \in 1..Len(d) |->
             IF d[j].key = k THEN [d[j] EXCEPT !.val = @ + 1] ELSE d[j]]
    ELSE Append(d, [key |-> k, val |-> 1])

\* the judgment seen last is kept
RecordLast(d, val) ==
    IF DictHas(d, val.mal_id)
    THEN [j \in 1..Len(d) |->
             IF d[j].key = val.mal_id THEN [d[j] EXCEPT !.val = val]
             ELSE d[j]]
    ELSE Append(d, [key |-> val.mal_id, val |-> val])

\* if val['mal_id'] not in d_mal_vals: d_mal_vals[val['mal_id']] = val
RecordFirst(d, val) ==
    IF DictHas(d, val.mal_id) THEN d
    ELSE Append(d, [key |-> val.mal_id, val |-> val])

\* a vote short of min_val wins
ReachesMinOffByOne(count) == count >= min_val - 1

\* count >= min_val
ReachesMin(count) == count >= min_val

\* str(n) of a natural number
DigitText == [d \in 0..9 |->
    CASE d = 0 -> "0" [] d = 1 -> "1" [] d = 2 -> "2" [] d = 3 -> "3"
      [] d = 4 -> "4" [] d = 5 -> "5" [] d = 6 -> "6" [] d = 7 -> "7"
      [] d = 8 -> "8" [] d = 9 -> "9"]

RECURSIVE IntText(_)
IntText(n) ==
    IF n < 10 THEN <<DigitText[n]>>
    ELSE IntText(n \div 10) \o <<DigitText[n % 10]>>

\* repr of the vote dict: {id: count, ...}
RECURSIVE ReprEntries(_)
ReprEntries(d) ==
    IF Len(d) = 0 THEN <<>>
    ELSE IntText(Head(d).key[1]) \o <<":">> \o IntText(Head(d).val)
             \o (IF Len(d) > 1 THEN <<",">> ELSE <<>>)
             \o ReprEntries(Tail(d))

ReprDict(d) == <<"{">> \o ReprEntries(d) \o <<"}">>

\* fancaps formats dict(mal_ids), subsplease the defaultdict itself
SplitReason(st, counts) ==
    <<"Cannot determine which anime it is due to the complex result in">>
        \o IntText(val_times) \o <<"times", ":">>
        \o (IF st = "fancaps" THEN ReprDict(counts)
            ELSE <<"defaultdict(">> \o ReprDict(counts) \o <<")">>)

\* the source item that is attached to the resolution
BgItem == "item"

Attach(j, st) ==
    [mal_id |-> j.mal_id, title |-> j.title, year |-> j.year,
     reason |-> j.reason, mal |-> j.mal, source |-> <<st, BgItem>>]

\* the year of the judgment recorded last
SplitYearLast(d) == d[Len(d)].val.year

\* list(d_mal_vals.values())[0]['year']
SplitYear(d) == d[1].val.year

\* the code after the loop of attempts
Resolve(st, ids, firsts) ==
    LET counts == DictDel(ids, None)
        wins == { j \in 1..Len(counts) :
                    Truthy(counts[j].key) /\ ReachesMin(counts[j].val) }
    IN  IF wins # {}
        THEN LET w == CHOOSE j \in wins : \A k \in wins : j <= k
             IN  Attach(DictGet(firsts, counts[w].key), st)
        ELSE IF DictHas(firsts, None)
        THEN Attach(DictGet(firsts, None), st)
        ELSE Attach([mal_id |-> None, title |-> None,
                     reason |-> SplitReason(st, counts), mal |-> None,
                     year |-> SplitYear(firsts)], st)

(* The catalog search result and the service's answers given to it.        *)

VoteSearchResult ==
    << Candidate(1, Some(11)), Candidate(2, Some(12)), Candidate(3, Some(13)),
       Candidate(4, None), Candidate(5, Some(15)) >>

VoteReplies ==
    { ReplyText(<<"1">>, <<"x">>, <<"2", "0">>, <<"a">>),
      ReplyText(<<"1">>, <<"x">>, <<"1", "1">>, <<"b">>),
      ReplyText(<<"2">>, <<"x">>, <<"1", "2">>, <<"a">>),
      ReplyText(<<"3">>, <<"x">>, <<"null">>, <<"a">>),
      ReplyText(<<"4">>, <<"x">>, <<"2", "0">>, <<"a">>),
      ReplyText(<<"4">>, <<"y">>, <<"null">>, <<"b">>),
      ReplyText(<<"5">>, <<"x">>, <<"1", "5">>, <<"a">>),
      ReplyText(<<"null">>, <<"null">>, <<"2", "0">>, <<"a">>),
      ReplyText(<<"null">>, <<"null">>, <<"null">>, <<"b">>),
      ReplyText(<<"9">>, <<"x">>, <<"null">>, <<"b">>) }

\* the answers to the requests of one attempt: `first`, then replies that
\* do not parse
Answers(first) ==
    [k \in 1..(max_tries + 1) |->
        IF k <= Len(first) THEN first[k] ELSE BadIdReply]

RetriedReply == ReplyText(<<"2">>, <<"x">>, <<"1", "2">>, <<"a">>)

VoteStreams ==
    { Answers(<<Reply(w)>>) : w \in VoteReplies }
        \cup { Answers(<<NoReasonReply, Reply(RetriedReply)>>),
               Answers(<<ServiceError, Reply(RetriedReply)>>),
               Answers(<<>>) }

NoFullInfo == Attach(NoJudgment, "none")

IdleVote ==
    /\ vals = <<>> /\ mal_ids = <<>> /\ d_mal_vals = <<>>
    /\ full_info = NoFullInfo /\ searches = 0

\* the lists the catalog search may return: five candidates, or none
VoteSearchResults == { VoteSearchResult, <<>> }

\* `if search_result is None` in _ask_chatgpt: the resolvers pass the list
\* that get_items_from_myanimelist returned, and a list, even an empty one,
\* is not None
ArgIsNone(sr) == FALSE

\* the loop stops as soon as some id has min_val votes
LoopEndsEarly(vs) ==
    \/ Len(vs) = val_times
    \/ \E k \in 1..Len(vs) :
           /\ vs[k].mal_id # None
           /\ Cardinality({ j \in 1..Len(vs) : vs[j].mal_id = vs[k].mal_id })
                  >= min_val

\* for i in range(val_times): the loop ends after val_times iterations
LoopEnds(vs) == Len(vs) = val_times

InitVote ==
    /\ mode = "vote"
    /\ pc = "search"
    /\ site \in Sites
    /\ search_result = <<>>
    /\ IdleVote
    /\ IdleAsk
    /\ IdleParse
    /\ IdleSync
    /\ IdleExt

\* search_result = get_items_from_myanimelist(...): returns, or raises on
\* an HTTP error other than 429
Search ==
    /\ mode = "vote"
    /\ pc = "search"
    /\ \/ search_result' \in VoteSearchResults /\ pc' = "loop"
       \/ search_result' = search_result /\ pc' = "raised"
    /\ searches' = searches + 1
    /\ UNCHANGED <<mode, site, vals, mal_ids, d_mal_vals, full_info, askVars,
                   parseVars, syncVars>>
    /\ UNCHANGED extVars

\* one iteration of `for i in range(val_times)`: one call of _ask_chatgpt
\* with the search result as argument
Val ==
    /\ mode = "vote"
    /\ pc = "loop"
    /\ ~LoopEnds(vals)
    /\ searches' = IF ArgIsNone(search_result) THEN searches + 1 ELSE searches
    /\ \E outcomes \in VoteStreams :
          LET r == _ask_chatgpt(site, search_result, outcomes)
          IN  IF r.status = "return"
              THEN /\ vals' = Append(vals, r.val)
                   /\ mal_ids' = DictIncr(mal_ids, r.val.mal_id)
                   /\ d_mal_vals' = RecordFirst(d_mal_vals, r.val)
                   /\ pc' = IF LoopEnds(vals') THEN "vote" ELSE "loop"
              ELSE /\ pc' = "raised"
                   /\ UNCHANGED <<vals, mal_ids, d_mal_vals>>
    /\ UNCHANGED <<mode, site, search_result, full_info, askVars, parseVars,
                   syncVars>>
    /\ UNCHANGED extVars

\* the tally after the loop
Vote ==
    /\ mode = "vote"
    /\ pc = "vote"
    /\ full_info' = Resolve(site, mal_ids, d_mal_vals)
    /\ pc' = "returned"
    /\ UNCHANGED <<mode, site, search_result, vals, mal_ids, d_mal_vals,
                   searches, askVars, parseVars, syncVars>>
    /\ UNCHANGED extVars

NextVote == Search \/ Val \/ Vote

SpecVote == InitVote /\ [][NextVote]_vars

---------------------------------------------------------------------------
(* The specification of one call of _ask_chatgpt.                          *)

InitAsk ==
    /\ mode = "ask"
    /\ pc = "call"
    /\ site \in Sites
    /\ search_result \in AskSearchResults
    /\ stream \in [1..(max_tries + 1) -> AskOutcomes]
    /\ ask = NoAsk
    /\ IdleParse
    /\ IdleVote
    /\ IdleSync
    /\ IdleExt

AskChatgpt ==
    /\ mode = "ask"
    /\ pc = "call"
    /\ ask' = _ask_chatgpt(site, search_result, stream)
    /\ pc' = IF ask'.status = "return" THEN "returned" ELSE "raised"
    /\ UNCHANGED <<mode, site, search_result, stream, parseVars, voteVars,
                   syncVars>>
    /\ UNCHANGED extVars

NextAsk == AskChatgpt

SpecAsk == InitAsk /\ [][NextAsk]_vars


(* Claims about _ask_chatgpt.                                              *)

\* the reply that the returning request received, parsed
ReturnedReply == _parse_output(stream[ask.requests].text)

NotACandidate(m) ==
    \A k \in 1..Len(search_result) : Some(search_result[k].mal_id) # m

\* C4: whenever the parsed reply carries a mal_id that is not the id of any
\* candidate of the search result given to the call, _ask_chatgpt returns a
\* null judgment (mal_id, title and mal null) with the reply's reason and
\* the reply's year; so a judgment with a non-null mal_id names a candidate.
C4_UnknownIdIsNoMatch ==
    pc = "returned" =>
        /\ NotACandidate(ReturnedReply.mal_id) =>
               ask.val = [mal_id |-> None, title |-> None, mal |-> None,
                          reason |-> ReturnedReply.reason,
                          year |-> ReturnedReply.year]
        /\ ask.val.mal_id # None => ~NotACandidate(ask.val.mal_id)

\* a reply naming id 9 parsed and was answered while 9 is no candidate
C4_Witness ==
    /\ mode = "ask" /\ pc = "returned"
    /\ ReturnedReply.mal_id = Some(9)
    /\ NotACandidate(Some(9))
    /\ ask.val.mal_id = None

\* the first k-1 answers are replies that fail to parse
AllFailParsing(k) ==
    \A j \in 1..(k - 1) :
        stream[j].kind = "reply" /\ ~_parse_output(stream[j].text).ok

\* C5: with max_tries = 5 every reply that fails strict parsing makes
\* _ask_chatgpt send the request again; the call returns the judgment of the
\* first reply that parses; after 5 consecutive parse failures it raises
\* without a 6th request and without a judgment.
C5_RetryOnParseFailure ==
    pc # "call" =>
        /\ \A k \in 1..max_tries :
               ( /\ AllFailParsing(k)
                 /\ stream[k].kind = "reply"
                 /\ _parse_output(stream[k].text).ok )
               => /\ ask.status = "return"
                  /\ ask.requests = k
                  /\ ask.val = Judgment(_parse_output(stream[k].text),
                                        search_result)
        /\ AllFailParsing(max_tries + 1) =>
               /\ ask.status = "raise"
               /\ ask.requests = max_tries
               /\ ask.val = NoJudgment

\* five replies failed to parse and the call raised, although a sixth
\* request would have been answered with a reply that parses
C5_Witness ==
    /\ mode = "ask" /\ pc = "raised"
    /\ AllFailParsing(max_tries + 1)
    /\ stream[1] = NoReasonReply /\ stream[2] = BadIdReply
    /\ _parse_output(stream[max_tries + 1].text).ok
    /\ ask.requests = max_tries

\* the candidate of the search result that the judgment names
MatchedCandidate ==
    search_result[CHOOSE k \in 1..Len(search_result) :
                      Some(search_result[k].mal_id) = ask.val.mal_id]

\* C26: when _ask_chatgpt accepts a reply whose mal_id is in the candidate
\* list, the returned year is the matched candidate's own year whenever
\* that is non-null, even if the reply's year differs, and is the reply's
\* year only when the candidate has no year; in a no-match judgment the
\* year is the reply's year.
C26_YearPrecedence ==
    (mode = "ask" /\ pc = "returned") =>
        IF ~NotACandidate(ReturnedReply.mal_id)
        THEN /\ ask.val.mal_id = ReturnedReply.mal_id
             /\ MatchedCandidate.year # None =>
                    ask.val.year = MatchedCandidate.year
             /\ MatchedCandidate.year = None =>
                    ask.val.year = ReturnedReply.year
        ELSE ask.val.mal_id = None /\ ask.val.year = ReturnedReply.year

\* a reply that names candidate 7 with year 20 was accepted, and the
\* judgment carries the candidate's year 19
C26_Witness ==
    /\ mode = "ask" /\ pc = "returned"
    /\ ask.val.mal_id = Some(7)
    /\ MatchedCandidate.year = Some(19)
    /\ ReturnedReply.year = Some(20)
    /\ ask.val.year = Some(19)

\* what a call returns or raises, and after how many requests
Outcome(r) ==
    [status |-> r.status, val |-> r.val, requests |-> r.requests]

\* C29: the fancaps and the subsplease _ask_chatgpt are equivalent: for the
\* same candidate list and the same sequence of judgment-service outcomes
\* (well-formed reply, malformed reply, or the service call itself raising)
\* both return the same judgment or both raise, after the same number of
\* requests.
C29_AskEquivalent ==
    (mode = "ask" /\ pc # "call") =>
        Outcome(_ask_chatgpt("fancaps", search_result, stream))
            = Outcome(_ask_chatgpt("subsplease", search_result, stream))

\* the two agree as long as no call of the service raises before the call
\* of _ask_chatgpt ends
AskEquivalentWithoutServiceError ==
    (mode = "ask" /\ pc # "call"
       /\ \A k \in 1..ask.requests : stream[k].kind # "error") =>
        Outcome(_ask_chatgpt("fancaps", search_result, stream))
            = Outcome(_ask_chatgpt("subsplease", search_result, stream))

(* Claims about the majority vote.                                         *)

Votes(m) == Cardinality({ k \in 1..Len(vals) : vals[k].mal_id = m })

\* the judgment of the first attempt, in attempt order, that returned m
FirstWith(m) ==
    vals[CHOOSE k \in 1..Len(vals) :
             vals[k].mal_id = m /\ \A j \in 1..(k - 1) : vals[j].mal_id # m]

\* the resolution is the judgment j with only the source item attached
IsVerbatim(j) ==
    /\ full_info.mal_id = j.mal_id
    /\ full_info.title = j.title
    /\ full_info.year = j.year
    /\ full_info.reason = j.reason
    /\ full_info.mal = j.mal
    /\ full_info.source = <<site, BgItem>>
    /\ DOMAIN full_info = DOMAIN j \cup {"source"}

SomeIdReachesMin ==
    \E k \in 1..Len(vals) :
        vals[k].mal_id # None /\ Votes(vals[k].mal_id) >= min_val

SomeNull == \E k \in 1..Len(vals) : vals[k].mal_id = None

\* the votes per non-null id, the ids in the order of their first vote
RECURSIVE TallyFrom(_)
TallyFrom(k) ==
    IF k > Len(vals) THEN <<>>
    ELSE (IF vals[k].mal_id # None
             /\ \A j \in 1..(k - 1) : vals[j].mal_id # vals[k].mal_id
          THEN <<[key |-> vals[k].mal_id, val |-> Votes(vals[k].mal_id)]>>
          ELSE <<>>) \o TallyFrom(k + 1)

\* C1: with val_times = 5 and min_val = 4, whenever some non-null mal_id is
\* returned by at least 4 of the 5 attempts, the resolution is the judgment
\* of the first attempt that returned that mal_id, verbatim (mal_id, title,
\* year, reason, mal), with only the source item attached.
C1_MajorityFirstSeen ==
    pc = "returned" =>
        \A k \in 1..Len(vals) :
            (vals[k].mal_id # None /\ Votes(vals[k].mal_id) >= 4)
                => IsVerbatim(FirstWith(vals[k].mal_id))

\* votes {1: 1, 4: 4}; the first judgment for 4 differs from a later one
C1_Witness ==
    /\ mode = "vote" /\ pc = "returned" /\ Len(vals) = 5
    /\ vals[1].mal_id = Some(1)
    /\ Votes(Some(4)) = 4
    /\ vals[2] # vals[5]
    /\ full_info.mal_id = Some(4)

\* C2: whenever no non-null mal_id reaches min_val votes and at least one
\* attempt returned a null judgment, the resolution is the first null
\* judgment in attempt order, unchanged, e.g. for the votes
\* {A: 2, B: 2, null: 1} and {A: 3, null: 2}.
C2_FirstNullWithoutMajority ==
    (pc = "returned" /\ ~SomeIdReachesMin /\ SomeNull)
        => IsVerbatim(FirstWith(None))

\* votes {1: 3, null: 2}, the two null judgments differing
C2_Witness ==
    /\ mode = "vote" /\ pc = "returned" /\ Len(vals) = 5
    /\ Votes(Some(1)) = 3
    /\ vals[2].mal_id = None /\ vals[5].mal_id = None
    /\ vals[2] # vals[5]
    /\ full_info.mal_id = None

\* C3: whenever no attempt returned a null judgment and no mal_id reaches
\* min_val votes (all votes distinct, or a split such as {A: 3, B: 2}), the
\* resolution is a synthesized judgment with mal_id, title and mal null, a
\* reason that reports the vote tally, and the year of the first attempt's
\* judgment.
C3_SplitVoteSynthesized ==
    (pc = "returned" /\ ~SomeIdReachesMin /\ ~SomeNull) =>
            /\ full_info.mal_id = None
            /\ full_info.title = None
            /\ full_info.mal = None
            /\ full_info.reason = SplitReason(site, TallyFrom(1))
            /\ full_info.year = vals[1].year
            /\ full_info.source = <<site, BgItem>>

\* five attempts, five different ids, the first and the last year differing
C3_Witness ==
    /\ mode = "vote" /\ pc = "returned" /\ Len(vals) = 5
    /\ \A k \in 1..5 : vals[k].mal_id # None /\ Votes(vals[k].mal_id) = 1
    /\ vals[1].year # vals[5].year
    /\ full_info.mal_id = None

\* C27: every resolution performs the catalog search exactly once and then
\* exactly val_times single attempts, one after another, all against that
\* same candidate list, with no early exit even once some id has reached
\* min_val votes; if a single attempt raises, the resolution raises and
\* yields no judgment.
C27_SearchOnceThenValTimes ==
    /\ [](mode = "vote" =>
            /\ searches = (IF pc = "search" THEN 0 ELSE 1)
            /\ pc = "loop" => Len(vals) < val_times
            /\ pc \in {"vote", "returned"} => Len(vals) = val_times
            /\ pc # "returned" => full_info = NoFullInfo)
    /\ [][ mode = "vote" =>
            /\ pc # "search" => search_result' = search_result
            /\ pc = "loop" =>
                   \/ /\ vals' = vals /\ pc' = "raised"
                   \/ /\ Len(vals') = Len(vals) + 1
                      /\ SubSeq(vals', 1, Len(vals)) = vals
                      /\ pc' = IF Len(vals') = val_times THEN "vote" ELSE "loop"
                      /\ vals'[Len(vals')].mal # None =>
                             \E k \in 1..Len(search_result) :
                                 search_result[k] = vals'[Len(vals')].mal[1]
            /\ pc' = "returned" => pc = "vote" ]_vars

\* id 4 had its min_val votes after four attempts; a fifth attempt was made
\* all the same, it named id 1, and the resolution returned after one search
C27_Witness ==
    /\ mode = "vote" /\ pc = "returned" /\ searches = 1
    /\ Len(vals) = val_times
    /\ \A k \in 1..min_val : vals[k].mal_id = Some(4)
    /\ vals[val_times].mal_id = Some(1)
    /\ full_info.mal_id = Some(4)

---------------------------------------------------------------------------
(* sync of fancaps/match.py, subsplease/match.py and subsplease/rp.py.     *)

upload_time_span == 30
deploy_span == 300

MaxRuns == 2

\* the entry points; match.sync of subsplease and rp.sync share a dataset
MatchSites == {"fancaps", "subsplease"}
SyncEntries == MatchSites \cup {"rp"}
SameDataset(st) == IF st = "fancaps" THEN {"fancaps"} ELSE {"subsplease", "rp"}

\* the page ids, in the order of their names; p0 is not listed upstream
PageOrder == <<"p0", "p1", "p2", "p3">>
Pages == { PageOrder[k] : k \in 1..Len(PageOrder) }
PageIndex(p) == CHOOSE k \in 1..Len(PageOrder) : PageOrder[k] = p

\* _get_mappings() / list_all_items_from_subsplease()
Listing == <<"p1", "p2", "p3">>

\* row = {'page_id': ..., 'mal_id': ..., 'reason': ..., 'year': ..., ...}
Row(page, info) ==
    [page_id |-> page, mal_id |-> info.mal_id, reason |-> info.reason,
     year |-> info.year]

Rows(d) == { d[q][1] : q \in { q \in Pages : d[q] # None } }

\* sort_values(by=['year', 'page_id'], ascending=[False, True]): rows
\* without a year come last
Before(r, q) ==
    IF r.year # q.year
    THEN r.year # None /\ (q.year = None \/ r.year[1] > q.year[1])
    ELSE PageIndex(r.page_id) < PageIndex(q.page_id)

RECURSIVE SortRows(_)
SortRows(S) ==
    IF S = {} THEN <<>>
    ELSE LET m == CHOOSE r \in S : \A q \in S \ {r} : Before(r, q)
         IN  <<m>> \o SortRows(S \ {m})

\* the table.parquet written by _deploy
Snapshot(d) == SortRows(Rows(d))

\* only the rows of pages of the upstream listing are loaded
LoadListed(table) ==
    [q \in Pages |->
        IF /\ \E k \in 1..Len(table) : table[k].page_id = q
           /\ \E k \in 1..Len(Listing) : Listing[k] = q
        THEN Some(table[CHOOSE k \in 1..Len(table) : table[k].page_id = q])
        ELSE None]

\* d_animes = {item['page_id']: item for item in df.to_dict('records')}
Load(table) ==
    [q \in Pages |->
        IF \E k \in 1..Len(table) : table[k].page_id = q
        THEN Some(table[CHOOSE k \in 1..Len(table) :
                     /\ table[k].page_id = q
                     /\ \A j \in (k + 1)..Len(table) : table[j].page_id # q])
        ELSE None]

\* no page is ever skipped as matched
AlreadyMatchedNever(d, page) == FALSE

\* page_id in d_animes and d_animes[page_id]['mal_id']
AlreadyMatched(d, page) == d[page] # None /\ Truthy(d[page][1].mal_id)

\* sync_mode is ignored: an asked page is never asked again
AlreadyAskedAlways(sm, d, page) == d[page] # None

\* sync_mode is ignored: an asked page is always asked again
AlreadyAskedNever(sm, d, page) == FALSE

\* not sync_mode and page_id in d_animes
AlreadyAsked(sm, d, page) == ~sm /\ d[page] # None

\* _deploy with a gate that stays shut for twice deploy_span
DeployGateTwiceAsLong(force, d, hu, t) ==
    IF \/ ~hu
       \/ ~force /\ _last_update # None
                 /\ _last_update[1] + 2 * deploy_span > t
    THEN [has_update |-> hu, _last_update |-> _last_update,
          _total_count |-> _total_count, now |-> t, limiter |-> limiter,
          repo |-> repo, pushes |-> pushes]
    ELSE LET acquired ==
                 IF limiter # None /\ limiter[1] + upload_time_span > t
                 THEN limiter[1] + upload_time_span ELSE t
         IN  [has_update |-> FALSE, _last_update |-> Some(acquired),
              _total_count |-> Cardinality(Rows(d)), now |-> acquired,
              limiter |-> Some(acquired), repo |-> Snapshot(d),
              pushes |-> pushes + 1]

\* _deploy with a gate that is still shut when exactly deploy_span has passed
DeployGateExclusive(force, d, hu, t) ==
    IF \/ ~hu
       \/ ~force /\ _last_update # None /\ _last_update[1] + deploy_span >= t
    THEN [has_update |-> hu, _last_update |-> _last_update,
          _total_count |-> _total_count, now |-> t, limiter |-> limiter,
          repo |-> repo, pushes |-> pushes]
    ELSE LET acquired ==
                 IF limiter # None /\ limiter[1] + upload_time_span > t
                 THEN limiter[1] + upload_time_span ELSE t
         IN  [has_update |-> FALSE, _last_update |-> Some(acquired),
              _total_count |-> Cardinality(Rows(d)), now |-> acquired,
              limiter |-> Some(acquired), repo |-> Snapshot(d),
              pushes |-> pushes + 1]

\* _deploy with a limiter that lets every upload pass at once
DeployWithoutLimiter(force, d, hu, t) ==
    IF \/ ~hu
       \/ ~force /\ _last_update # None /\ _last_update[1] + deploy_span > t
    THEN [has_update |-> hu, _last_update |-> _last_update,
          _total_count |-> _total_count, now |-> t, limiter |-> limiter,
          repo |-> repo, pushes |-> pushes]
    ELSE [has_update |-> FALSE, _last_update |-> Some(t),
          _total_count |-> Cardinality(Rows(d)), now |-> t,
          limiter |-> Some(t), repo |-> Snapshot(d),
          pushes |-> pushes + 1]

\* _deploy whose forced call does not look at has_update
DeployForcedWithoutUpdate(force, d, hu, t) ==
    IF \/ ~force /\ ~hu
       \/ ~force /\ _last_update # None /\ _last_update[1] + deploy_span > t
    THEN [has_update |-> hu, _last_update |-> _last_update,
          _total_count |-> _total_count, now |-> t, limiter |-> limiter,
          repo |-> repo, pushes |-> pushes]
    ELSE LET acquired ==
                 IF limiter # None /\ limiter[1] + upload_time_span > t
                 THEN limiter[1] + upload_time_span ELSE t
         IN  [has_update |-> FALSE, _last_update |-> Some(acquired),
              _total_count |-> Cardinality(Rows(d)), now |-> acquired,
              limiter |-> Some(acquired), repo |-> Snapshot(d),
              pushes |-> pushes + 1]

\* _deploy(force), called at time t with table d and has_update hu: the
\* values of the variables it leaves.  The limiter lets one upload pass
\* per upload_time_span and delays the caller otherwise.
_deploy(force, d, hu, t) ==
    IF \/ ~hu
       \/ ~force /\ _last_update # None /\ _last_update[1] + deploy_span > t
    THEN [has_update |-> hu, _last_update |-> _last_update,
          _total_count |-> _total_count, now |-> t, limiter |-> limiter,
          repo |-> repo, pushes |-> pushes]
    ELSE LET acquired ==
                 IF limiter # None /\ limiter[1] + upload_time_span > t
                 THEN limiter[1] + upload_time_span ELSE t
         IN  [has_update |-> FALSE, _last_update |-> Some(acquired),
              _total_count |-> Cardinality(Rows(d)), now |-> acquired,
              limiter |-> Some(acquired), repo |-> Snapshot(d),
              pushes |-> pushes + 1]

SetDeployed(r) ==
    /\ has_update' = r.has_update
    /\ _last_update' = r._last_update
    /\ _total_count' = r._total_count
    /\ now' = r.now
    /\ limiter' = r.limiter
    /\ repo' = r.repo
    /\ pushes' = r.pushes

(* What the environment gives to sync.                                     *)

\* how long resolving one item takes
Durations == {1, deploy_span}

\* the resolutions get_full_info_for_fancaps / _subsplease may return
Resolutions ==
    { [mal_id |-> Some(7), year |-> Some(19), reason |-> <<"a">>],
      [mal_id |-> Some(8), year |-> None, reason |-> <<"b">>],
      [mal_id |-> None, year |-> Some(20), reason |-> <<"d">>] }

\* what get_full_info_for_replace returns for (page, mal_id)
Replacement(item) ==
    [mal_id |-> Some(item.mal_id), year |-> Some(20),
     reason |-> <<"Admin specified", item.page>> \o IntText(item.mal_id)]

ChangeItemLists ==
    { <<>>,
      << [page |-> "p1", mal_id |-> 8] >>,
      << [page |-> "p2", mal_id |-> 7], [page |-> "p0", mal_id |-> 8] >> }

\* the tables a repository may hold when the first run starts
StoredRows(q) ==
    { Row(q, [mal_id |-> Some(7), year |-> Some(19), reason |-> <<"a">>]),
      Row(q, [mal_id |-> None, year |-> Some(20), reason |-> <<"d">>]) }

InitialTables ==
    { Snapshot(d) :
        d \in { d \in [Pages -> {None} \cup
                          { Some(r) : r \in UNION { StoredRows(q) : q \in Pages } }] :
                  /\ \A q \in Pages : d[q] # None => d[q][1].page_id = q
                  /\ d["p0"] # None => Truthy(d["p0"][1].mal_id) } }

Items == IF site = "rp" THEN change_items ELSE Listing

\* the environments sync is started in: all credentials set, or one missing
LlmEnvironments ==
    { {"LLM_SITE", "LLM_API_KEY"}, {"LLM_API_KEY"}, {"LLM_SITE"} }

InitSync ==
    /\ mode = "sync"
    /\ pc = "idle"
    /\ site \in SyncEntries
    /\ repo \in InitialTables
    /\ sync_mode = FALSE /\ change_items = <<>>
    /\ d_animes = [q \in Pages |-> None]
    /\ has_update = FALSE /\ _last_update = None /\ _total_count = 0
    /\ now = 0 /\ limiter = None /\ idx = 0
    /\ calls = <<>> /\ errors = 0 /\ pushes = 0 /\ run = 0
    /\ search_result = <<>>
    /\ IdleParse /\ IdleAsk /\ IdleVote
    /\ IdleCall /\ IdleFlush /\ IdleMal /\ IdleErai /\ IdleRp
    /\ environ \in LlmEnvironments
    /\ IdleAfterEnv

\* sync(...) up to its loop: the table is loaded from the repository
StartRun ==
    /\ mode = "sync"
    /\ pc \in {"idle", "done", "aborted"}
    /\ run < MaxRuns
    /\ run' = run + 1
    /\ site' \in SameDataset(site)
    /\ sync_mode' \in BOOLEAN
    /\ change_items' \in (IF site' = "rp" THEN ChangeItemLists ELSE {<<>>})
    /\ d_animes' = Load(repo)
    /\ has_update' = FALSE
    /\ _last_update' = None
    /\ _total_count' = Len(repo)
    /\ now' = 0
    /\ limiter' = None
    /\ idx' = 1
    /\ calls' = <<>>
    /\ errors' = 0
    /\ pushes' = 0
    /\ pc' = "iter"
    /\ UNCHANGED <<mode, repo, search_result, parseVars, askVars, voteVars>>
    /\ UNCHANGED extVars

InLoop(sites) ==
    mode = "sync" /\ pc = "iter" /\ site \in sites /\ idx <= Len(Items)

\* match.sync: the item is already matched
SkipMatched ==
    /\ InLoop(MatchSites)
    /\ AlreadyMatched(d_animes, Items[idx])
    /\ idx' = idx + 1
    /\ UNCHANGED <<mode, pc, site, search_result, parseVars, askVars,
                   voteVars, sync_mode, change_items, d_animes, has_update,
                   _last_update, _total_count, now, limiter, repo, calls,
                   errors, pushes, run>>
    /\ UNCHANGED extVars

\* match.sync: the item was asked before and sync_mode is off
SkipAsked ==
    /\ InLoop(MatchSites)
    /\ ~AlreadyMatched(d_animes, Items[idx])
    /\ AlreadyAsked(sync_mode, d_animes, Items[idx])
    /\ idx' = idx + 1
    /\ UNCHANGED <<mode, pc, site, search_result, parseVars, askVars,
                   voteVars, sync_mode, change_items, d_animes, has_update,
                   _last_update, _total_count, now, limiter, repo, calls,
                   errors, pushes, run>>
    /\ UNCHANGED extVars

\* match.sync: the item is resolved, upserted, and _deploy() is called; the
\* resolver returns only if _ask_chatgpt got its client
ResolveReturns ==
    /\ InLoop(MatchSites)
    /\ get_openai_client(environ) # KeyError
    /\ ~AlreadyMatched(d_animes, Items[idx])
    /\ ~AlreadyAsked(sync_mode, d_animes, Items[idx])
    /\ \E dt \in Durations, info \in Resolutions :
          /\ d_animes' = [d_animes EXCEPT
                              ![Items[idx]] = Some(Row(Items[idx], info))]
          /\ SetDeployed(_deploy(FALSE, d_animes', TRUE, now + dt))
    /\ calls' = Append(calls, Items[idx])
    /\ idx' = idx + 1
    /\ UNCHANGED <<mode, pc, site, search_result, parseVars, askVars,
                   voteVars, sync_mode, change_items, errors, run>>
    /\ UNCHANGED extVars

\* match.sync: resolving the item raises (the catalog search, the client's
\* construction from the environment, or the attempts).  fancaps catches the
\* error and goes on; subsplease has no try block, so the error leaves sync.
ResolveRaises ==
    /\ InLoop(MatchSites)
    /\ ~AlreadyMatched(d_animes, Items[idx])
    /\ ~AlreadyAsked(sync_mode, d_animes, Items[idx])
    /\ \E dt \in Durations : now' = now + dt
    /\ calls' = Append(calls, Items[idx])
    /\ errors' = errors + 1
    /\ IF site = "fancaps"
       THEN idx' = idx + 1 /\ pc' = pc
       ELSE idx' = idx /\ pc' = "aborted"
    /\ UNCHANGED <<mode, site, search_result, parseVars, askVars, voteVars,
                   sync_mode, change_items, d_animes, has_update,
                   _last_update, _total_count, limiter, repo, pushes, run>>
    /\ UNCHANGED extVars

\* rp.sync: the item is replaced by the operator's choice, no _deploy()
ReplaceReturns ==
    /\ InLoop({"rp"})
    /\ \E dt \in Durations : now' = now + dt
    /\ d_animes' = [d_animes EXCEPT ![Items[idx].page] =
                        Some(Row(Items[idx].page, Replacement(Items[idx])))]
    /\ has_update' = TRUE
    /\ calls' = Append(calls, Items[idx].page)
    /\ idx' = idx + 1
    /\ UNCHANGED <<mode, pc, site, search_result, parseVars, askVars,
                   voteVars, sync_mode, change_items, _last_update,
                   _total_count, limiter, repo, errors, pushes, run>>
    /\ UNCHANGED extVars

\* rp.sync: get_full_info_for_replace raises, the error is caught
ReplaceRaises ==
    /\ InLoop({"rp"})
    /\ \E dt \in Durations : now' = now + dt
    /\ calls' = Append(calls, Items[idx].page)
    /\ errors' = errors + 1
    /\ idx' = idx + 1
    /\ UNCHANGED <<mode, pc, site, search_result, parseVars, askVars,
                   voteVars, sync_mode, change_items, d_animes, has_update,
                   _last_update, _total_count, limiter, repo, pushes, run>>
    /\ UNCHANGED extVars

\* after the loop: _deploy(force=True)
Finish ==
    /\ mode = "sync"
    /\ pc = "iter"
    /\ idx > Len(Items)
    /\ SetDeployed(_deploy(TRUE, d_animes, has_update, now))
    /\ pc' = "done"
    /\ UNCHANGED <<mode, site, search_result, parseVars, askVars, voteVars,
                   sync_mode, change_items, d_animes, idx, calls, errors,
                   run>>
    /\ UNCHANGED extVars

NextSync ==
    \/ StartRun
    \/ SkipMatched
    \/ SkipAsked
    \/ ResolveReturns
    \/ ResolveRaises
    \/ ReplaceReturns
    \/ ReplaceRaises
    \/ Finish

SpecSync == InitSync /\ [][NextSync]_vars

(* Claims about sync.                                                      *)

HasRecord(q) == d_animes[q] # None
Settled(q) == d_animes[q] # None /\ d_animes[q][1].mal_id # None
Unsettled(q) == d_animes[q] # None /\ d_animes[q][1].mal_id = None

InRepo(r) == \E k \in 1..Len(repo) : repo[k] = r

\* a step of the loop or of the final flush of match.sync
MatchSyncStep == mode = "sync" /\ pc = "iter" /\ site \in MatchSites

\* C7: in match.sync of fancaps and subsplease with sync_mode enabled, for
\* an upstream item whose page_id has a record with non-null mal_id the
\* resolver is not invoked and the record in d_animes stays as it is; no
\* step of such a run alters a settled record, in memory or in the pushed
\* table, however many runs follow one another.
C7_SettledNotResolvedAgain ==
    [][ (MatchSyncStep /\ sync_mode) =>
          /\ \A q \in Pages : Settled(q) => d_animes'[q] = d_animes[q]
          /\ (idx <= Len(Listing) /\ Settled(Listing[idx])) =>
                 calls' = calls /\ d_animes' = d_animes
          /\ \A k \in 1..Len(repo) :
                 repo[k].mal_id # None =>
                     \E j \in 1..Len(repo') : repo'[j] = repo[k] ]_vars

\* a second run with sync_mode on has gone through the listing: p1 was
\* settled and skipped while the resolver was invoked for another page
C7_Witness ==
    /\ mode = "sync" /\ site \in MatchSites /\ sync_mode
    /\ run = 2 /\ pc = "done"
    /\ Settled("p1") /\ InRepo(d_animes["p1"][1])
    /\ \A k \in 1..Len(calls) : calls[k] # "p1"
    /\ calls # <<>>

\* C8 as stated: across every entry point that writes the table (match.sync
\* of fancaps and subsplease, rp.sync), a record is created or overwritten
\* only when the page has no record yet, or its record has null mal_id and
\* sync_mode is enabled; a record with non-null mal_id is never overwritten.
C8_WriteOnlyNewOrUnsettled ==
    [][ (mode = "sync" /\ pc = "iter") =>
          \A q \in Pages :
              d_animes'[q] # d_animes[q] =>
                  (~HasRecord(q) \/ (Unsettled(q) /\ sync_mode)) ]_vars

\* C8 amended: match.sync of fancaps and subsplease creates or overwrites a
\* record only when the page has no record yet, or its record has null
\* mal_id and sync_mode is enabled, and never overwrites a record with
\* non-null mal_id; rp.sync upserts the record of every change item whose
\* override resolution succeeds, whatever the existing record and
\* sync_mode, and changes no other record.
C8_MatchWritesNewOrUnsettled_RpOverwrites ==
    [][ /\ MatchSyncStep =>
              \A q \in Pages :
                  d_animes'[q] # d_animes[q] =>
                      (~HasRecord(q) \/ (Unsettled(q) /\ sync_mode))
        /\ (mode = "sync" /\ pc = "iter" /\ site = "rp"
                /\ idx <= Len(change_items)) =>
              /\ errors' = errors =>
                     /\ d_animes'[change_items[idx].page] # None
                     /\ d_animes'[change_items[idx].page][1].mal_id
                            = Some(change_items[idx].mal_id)
              /\ \A q \in Pages \ {change_items[idx].page} :
                     d_animes'[q] = d_animes[q] ]_vars

\* rp.sync with sync_mode off has replaced the pushed, settled record of p1
\* (mal_id 7) by one with mal_id 8
C8_Witness ==
    /\ mode = "sync" /\ site = "rp" /\ ~sync_mode /\ pc = "iter"
    /\ idx = 2 /\ change_items[1].page = "p1"
    /\ \E k \in 1..Len(repo) :
           repo[k].page_id = "p1" /\ repo[k].mal_id = Some(7)
    /\ d_animes["p1"][1].mal_id = Some(8)

\* C9: in match.sync the resolver is invoked for an upstream item if and
\* only if its page_id has no record, or its record has null mal_id and
\* sync_mode is true; with sync_mode false an existing unsettled record is
\* skipped without any call of the resolver and stays unchanged.
C9_ResolverInvokedIff ==
    [][ (MatchSyncStep /\ idx <= Len(Listing)) =>
          /\ calls' # calls <=>
                 \/ ~HasRecord(Listing[idx])
                 \/ Unsettled(Listing[idx]) /\ sync_mode
          /\ calls' # calls => calls' = Append(calls, Listing[idx])
          /\ (~sync_mode /\ Unsettled(Listing[idx])) =>
                 calls' = calls /\ d_animes' = d_animes /\ now' = now ]_vars

\* a run with sync_mode off has gone through the listing: p1 is unsettled
\* and was skipped while the resolver was invoked for another page
C9_Witness ==
    /\ mode = "sync" /\ site \in MatchSites /\ ~sync_mode /\ pc = "done"
    /\ Unsettled("p1")
    /\ \A k \in 1..Len(calls) : calls[k] # "p1"
    /\ calls # <<>>

\* C10: in every sync loop (match.sync of fancaps and subsplease, rp.sync),
\* when resolving one upstream item raises, the error is caught, d_animes
\* and has_update keep their values, the loop goes on with the next item
\* (so the forced flush at the end of the run is still executed).
C10_ResolveErrorSkipsItem ==
    [][ errors' > errors =>
          /\ pc' = "iter"
          /\ idx' = idx + 1
          /\ d_animes' = d_animes
          /\ has_update' = has_update ]_vars

\* the run of sync has ended: it returned, or an error left it
RunEnded == mode = "sync" /\ pc \in {"done", "aborted"}

\* C11: in every run of sync, a record upserted into d_animes and not yet
\* pushed is pushed by the forced flush before the run ends, however little
\* time has passed since the previous flush; when the run has ended,
\* has_update is false and the last pushed snapshot equals the in-memory
\* table.
C11_EndOfRunFlush ==
    RunEnded => ~has_update /\ repo = Snapshot(d_animes)

\* what does hold: a run that returns has flushed
ReturnedRunIsFlushed ==
    (mode = "sync" /\ pc = "done") =>
        ~has_update /\ repo = Snapshot(d_animes)

\* an iteration of the loop of match.sync in which a row was upserted
Upserted == MatchSyncStep /\ calls' # calls /\ errors' = errors

RowsOf(table, q) == { k \in 1..Len(table) : table[k].page_id = q }

\* C14: the pipeline never destroys a record.  Every record of the
\* table.parquet loaded when a run starts is in d_animes; no step of the run
\* removes a record from d_animes, and a step changes the fields of a record
\* only if it resolved that page_id; every snapshot pushed in the run has
\* exactly one row per page_id of d_animes, equal to the record, whether or
\* not the page_id is in the upstream listing, and drops no page_id that the
\* pushed table had.
C14_NoRecordDestroyed ==
    [][ /\ (mode = "sync" /\ pc # "iter" /\ pc' = "iter") =>
              \A k \in 1..Len(repo) :
                  d_animes'[repo[k].page_id] = Some(repo[k])
        /\ (mode = "sync" /\ pc = "iter") =>
              /\ \A q \in Pages :
                     HasRecord(q) =>
                         /\ d_animes'[q] # None
                         /\ d_animes'[q] # d_animes[q] =>
                                calls' = Append(calls, q)
              /\ repo' # repo =>
                     \A q \in Pages :
                         IF d_animes'[q] = None THEN RowsOf(repo', q) = {}
                         ELSE \E k \in 1..Len(repo') :
                                 /\ RowsOf(repo', q) = {k}
                                 /\ repo'[k] = d_animes'[q][1]
              /\ \A k \in 1..Len(repo) :
                     RowsOf(repo', repo[k].page_id) # {} ]_vars

\* a run has pushed a snapshot after it resolved an unsettled page again;
\* the record of p0, a page that is not in the upstream listing, was loaded
\* and is in d_animes and in the pushed snapshot
C14_Witness ==
    /\ mode = "sync" /\ pc = "done" /\ run = 2 /\ pushes > 0
    /\ HasRecord("p0") /\ InRepo(d_animes["p0"][1])
    /\ \A k \in 1..Len(calls) : calls[k] # "p0"
    /\ Settled("p1") /\ InRepo(d_animes["p1"][1])
    /\ \E k \in 1..Len(calls) : calls[k] = "p1"

\* a run of match.sync whose environment lacks a judgment-service credential
MissingCredential ==
    /\ mode = "sync" /\ site \in MatchSites /\ pc \in {"iter", "done", "aborted"}
    /\ get_openai_client(environ) = KeyError

\* C21: if the judgment-service endpoint or API key is missing from the
\* environment, sync fails with a fatal error before any upstream item is
\* processed, rather than completing the run with items skipped.  Stated
\* here in its weakest form: such a run never completes after the resolver
\* was invoked and its error was skipped over.
C21_MissingCredentialIsFatal ==
    MissingCredential => ~(pc = "done" /\ errors > 0)

\* what the code does with a missing credential: every invocation of the
\* resolver raises, nothing is upserted or pushed, and the subsplease run is
\* left by the first error
MissingCredentialResolvesNothing ==
    MissingCredential =>
        /\ errors = Len(calls) /\ ~has_update /\ pushes = 0
        /\ site = "subsplease" => (errors <= 1 /\ (errors = 1 <=> pc = "aborted"))

\* a step of the loop of match.sync that upserts a row and calls _deploy()
DeployCalled == MatchSyncStep /\ calls' # calls /\ errors' = errors

\* C23: a non-forced _deploy() performs a flush only if has_update is true
\* and either no flush has completed yet in this run or at least deploy_span
\* has elapsed since the last completed flush; otherwise it returns without
\* writing a snapshot or pushing and leaves has_update, _last_update and
\* _total_count unchanged.
C23_Debounce ==
    [][ DeployCalled =>
          LET open == _last_update = None \/ _last_update[1] + deploy_span <= now'
          IN  /\ pushes' = pushes + 1 <=> open
              /\ pushes' \in {pushes, pushes + 1}
              /\ pushes' = pushes + 1 =>
                     /\ repo' = Snapshot(d_animes') /\ ~has_update'
                     /\ _last_update' = Some(now')
              /\ pushes' = pushes =>
                     /\ repo' = repo /\ has_update'
                     /\ _last_update' = _last_update
                     /\ _total_count' = _total_count ]_vars

\* a run in which the second upsert was flushed exactly deploy_span after the
\* first flush, and the third upsert, one second later, was held back
C23_Witness ==
    /\ MatchSyncStep /\ pushes = 2 /\ has_update /\ Len(calls) = 3 /\ errors = 0
    /\ now = _last_update[1] + 1
    /\ \E k \in 1..Len(repo) : repo[k].page_id = calls[2]
    /\ ~InRepo(d_animes[calls[3]][1])

\* C24: pushes are rate-limited by blocking, not dropping: within one run
\* any two pushes are at least upload_time_span apart, and every flush that
\* reaches the limiter performs its push; a forced end-of-run flush issued
\* right after a regular flush is delayed, never skipped.
C24_RateLimitedByBlocking ==
    [][ mode = "sync" /\ pc = "iter" =>
          /\ pushes' = pushes + 1 =>
                 /\ limiter # None => now' >= limiter[1] + upload_time_span
                 /\ limiter' = Some(now') /\ repo' = Snapshot(d_animes')
          /\ pushes' = pushes => limiter' = limiter
          /\ (pc' = "done" /\ has_update) =>
                 /\ pushes' = pushes + 1 /\ ~has_update'
                 /\ now' = IF limiter # None /\ limiter[1] + upload_time_span > now
                           THEN limiter[1] + upload_time_span ELSE now ]_vars

\* a run whose first upsert was pushed after one second and whose second
\* upsert, one second later, was pushed by the forced flush, which waited
\* until upload_time_span after the first push
C24_Witness ==
    /\ mode = "sync" /\ pc = "done" /\ pushes = 2 /\ errors = 0
    /\ now = 1 + upload_time_span /\ limiter = Some(now)
    /\ ~has_update /\ repo = Snapshot(d_animes)

\* C30: within a run of sync a snapshot is written and pushed only when at
\* least one record was upserted since the previous push (has_update true);
\* a run in which every upstream item is skipped or fails performs no push
\* at all, even at the forced end-of-run flush, and a completed push resets
\* has_update to false.
C30_PushOnlyWithUpdate ==
    /\ []((mode = "sync" /\ pc \in {"iter", "done", "aborted"}) =>
            /\ Len(calls) = errors => pushes = 0 /\ ~has_update
            /\ pc = "done" => ~has_update)
    /\ [][ mode = "sync" /\ pc = "iter" =>
            /\ pushes' # pushes =>
                   /\ has_update \/ (calls' # calls /\ errors' = errors)
                   /\ ~has_update'
            /\ pushes' = pushes => repo' = repo ]_vars

\* a run of fancaps match.sync that skipped an item and failed on the others
\* has ended, after its forced flush, without a push
C30_Witness ==
    /\ mode = "sync" /\ pc = "done" /\ site = "fancaps"
    /\ errors > 0 /\ Len(calls) = errors /\ Len(calls) < Len(Listing)
    /\ pushes = 0 /\ ~has_update

---------------------------------------------------------------------------
(* A flush in detail: _deploy writes the table, downloads the missing      *)
(* cover images through parallel_call of utils/parallel.py, renders the    *)
(* report and uploads the directory.                                       *)

\* min(os.cpu_count(), 16) of the machine
MaxWorkers == 2

MaxFlushes == 2

\* the mal_ids of the settled rows
CoverIds == {7, 8, 9}

FlushRow(page, id) ==
    Row(page, [mal_id |-> id, year |-> Some(19), reason |-> <<"a">>])

\* d_animes when the first flush starts: no settled row, one, two (and an
\* unsettled row), and two pages settled to the same mal_id
FlushTables ==
    LET Table(ids) ==
            [q \in Pages |->
                IF q \in DOMAIN ids THEN Some(FlushRow(q, ids[q])) ELSE None]
    IN  { Table([p1 |-> None]),
          Table([p1 |-> Some(7)]),
          Table([p1 |-> Some(7), p2 |-> Some(8), p3 |-> None]),
          Table([p1 |-> Some(9), p2 |-> Some(9)]) }

\* the rows upserted between two flushes
LaterRows == { FlushRow("p0", None), FlushRow("p0", Some(9)) }

\* df_animes[~df_animes['mal_cover_image_url'].isnull()].to_dict('records'):
\* a row has a cover url when it has a catalog record
CoverItems(d) == SelectSeq(Snapshot(d), LAMBDA r : r.mal_id # None)

\* dst_filename of an item, named by its mal_id
Dst(item) == item.mal_id[1]

NoFiles == [i \in CoverIds |-> "absent"]

\* the covers a repository may hold
StoredAssets == [CoverIds -> {"absent", "full"}]

\* tasks that a worker thread is running
Running(ts) ==
    Cardinality({ k \in 1..Len(ts) :
                    ts[k] \notin {"queued", "finished", "raised"} })

\* the work queue is first in, first out, and a thread takes a task when
\* fewer than max_workers tasks are running
CanStart(ts, k) ==
    /\ ts[k] = "queued"
    /\ \A j \in 1..(k - 1) : ts[j] # "queued"
    /\ Running(ts) < MaxWorkers

\* the call gives up as soon as a task has raised
JoinedOrRaised(ts, n) ==
    \/ Len(ts) = n /\ \A k \in 1..n : ts[k] \in {"finished", "raised"}
    \/ \E k \in 1..Len(ts) : ts[k] = "raised"

\* tp.shutdown(wait=True) returns: the n items are submitted and every task
\* has ended.  The futures are dropped, so an exception kept in one of them
\* is never raised in the caller.
Joined(ts, n) ==
    Len(ts) = n /\ \A k \in 1..n : ts[k] \in {"finished", "raised"}

\* pg.update() only for a task that returns
UpdateOnReturn(n, position) == IF position = "returning" THEN n + 1 ELSE n

\* finally: pg.update()
Update(n, position) == n + 1

InitFlush ==
    /\ mode = "flush"
    /\ pc = "idle"
    /\ site \in MatchSites
    /\ d_animes \in FlushTables
    /\ assets \in StoredAssets
    /\ sync_mode \in BOOLEAN
    /\ files = IF sync_mode THEN assets ELSE NoFiles
    /\ repo = <<>>
    /\ has_update = TRUE
    /\ d_mal_images = {} /\ readme = None /\ flush = 0
    /\ IdleCall /\ IdleAfterFlush
    /\ change_items = <<>> /\ _last_update = None /\ _total_count = 0
    /\ now = 0 /\ limiter = None /\ idx = 0
    /\ calls = <<>> /\ errors = 0 /\ pushes = 0 /\ run = 0
    /\ search_result = <<>>
    /\ IdleParse /\ IdleAsk /\ IdleVote

\* _deploy passes its gate: the table is written and parallel_call begins.  A
\* later flush follows an upsert.
BeginFlush ==
    /\ mode = "flush"
    /\ pc \in {"idle", "done"}
    /\ flush < MaxFlushes
    /\ flush' = flush + 1
    /\ IF flush = 0
       THEN d_animes' = d_animes
       ELSE \E r \in LaterRows :
               d_animes' = [d_animes EXCEPT ![r.page_id] = Some(r)]
    /\ has_update' = TRUE
    /\ items' = CoverItems(d_animes')
    /\ tasks' = <<>>
    /\ invoked' = [k \in 1..Len(items') |-> 0]
    /\ pg' = 0
    /\ d_mal_images' = {}
    /\ readme' = None
    /\ pc' = IF Len(items') = 0 THEN "shutdown" ELSE "submit"
    /\ UNCHANGED <<mode, site, search_result, parseVars, askVars, voteVars,
                   sync_mode, change_items, _last_update, _total_count, now,
                   limiter, repo, idx, calls, errors, pushes, run, files,
                   assets>>
    /\ UNCHANGED afterFlushVars

\* for item in iterable: tp.submit(_fn, item)
Submit ==
    /\ mode \in {"flush", "append"}
    /\ pc = "submit"
    /\ tasks' = Append(tasks, "queued")
    /\ pc' = IF Len(tasks') = Len(items) THEN "shutdown" ELSE "submit"
    /\ UNCHANGED <<mode, site, search_result, parseVars, askVars, voteVars,
                   syncVars, items, invoked, pg, flushVars>>
    /\ UNCHANGED afterFlushVars

\* a worker thread takes the task from the queue and calls _fn(item)
TaskStart(k) ==
    /\ mode \in {"flush", "append"}
    /\ CanStart(tasks, k)
    /\ tasks' = [tasks EXCEPT ![k] = "called"]
    /\ invoked' = [invoked EXCEPT ![k] = @ + 1]
    /\ UNCHANGED <<mode, pc, site, search_result, parseVars, askVars,
                   voteVars, syncVars, items, pg, flushVars>>
    /\ UNCHANGED afterFlushVars

\* _fn_download_mal_cover: the file is there, nothing is downloaded
TaskFileExists(k) ==
    /\ mode = "flush"
    /\ tasks[k] = "called"
    /\ files[Dst(items[k])] # "absent"
    /\ d_mal_images' = d_mal_images \cup {Dst(items[k])}
    /\ tasks' = [tasks EXCEPT ![k] = "returning"]
    /\ UNCHANGED <<mode, pc, site, search_result, parseVars, askVars,
                   voteVars, syncVars, items, invoked, pg, files, readme,
                   assets, flush>>
    /\ UNCHANGED afterFlushVars

\* _fn_download_mal_cover: the file is not there, download_file is called
TaskDownloads(k) ==
    /\ mode = "flush"
    /\ tasks[k] = "called"
    /\ files[Dst(items[k])] = "absent"
    /\ tasks' = [tasks EXCEPT ![k] = "downloading"]
    /\ UNCHANGED <<mode, pc, site, search_result, parseVars, askVars,
                   voteVars, syncVars, items, invoked, pg, flushVars>>
    /\ UNCHANGED afterFlushVars

\* download_file has created the file and is writing it
TaskWrites(k) ==
    /\ mode = "flush"
    /\ tasks[k] = "downloading"
    /\ files' = [files EXCEPT ![Dst(items[k])] = "partial"]
    /\ tasks' = [tasks EXCEPT ![k] = "writing"]
    /\ UNCHANGED <<mode, pc, site, search_result, parseVars, askVars,
                   voteVars, syncVars, items, invoked, pg, d_mal_images,
                   readme, assets, flush>>
    /\ UNCHANGED afterFlushVars

\* download_file returns: the file is complete
TaskDownloaded(k) ==
    /\ mode = "flush"
    /\ tasks[k] = "writing"
    /\ files' = [files EXCEPT ![Dst(items[k])] = "full"]
    /\ d_mal_images' = d_mal_images \cup {Dst(items[k])}
    /\ tasks' = [tasks EXCEPT ![k] = "returning"]
    /\ UNCHANGED <<mode, pc, site, search_result, parseVars, askVars,
                   voteVars, syncVars, items, invoked, pg, readme, assets,
                   flush>>
    /\ UNCHANGED afterFlushVars

\* download_file raises, before it created the file or while writing it
TaskDownloadFails(k) ==
    /\ mode = "flush"
    /\ tasks[k] \in {"downloading", "writing"}
    /\ tasks' = [tasks EXCEPT ![k] = "cleanup"]
    /\ UNCHANGED <<mode, pc, site, search_result, parseVars, askVars,
                   voteVars, syncVars, items, invoked, pg, flushVars>>
    /\ UNCHANGED afterFlushVars

\* except: if os.path.exists(dst_filename): os.remove(dst_filename); raise
TaskCleanup(k) ==
    /\ mode = "flush"
    /\ tasks[k] = "cleanup"
    /\ files' = [files EXCEPT ![Dst(items[k])] = "absent"]
    /\ tasks' = [tasks EXCEPT ![k] = "raising"]
    /\ UNCHANGED <<mode, pc, site, search_result, parseVars, askVars,
                   voteVars, syncVars, items, invoked, pg, d_mal_images,
                   readme, assets, flush>>
    /\ UNCHANGED afterFlushVars

\* _fn: the error is logged and raised again into the future of the task,
\* or fn has returned; finally: pg.update()
TaskEnds(k) ==
    /\ mode \in {"flush", "append"}
    /\ tasks[k] \in {"returning", "raising"}
    /\ pg' = Update(pg, tasks[k])
    /\ tasks' = [tasks EXCEPT ![k] =
                     IF tasks[k] = "returning" THEN "finished" ELSE "raised"]
    /\ UNCHANGED <<mode, pc, site, search_result, parseVars, askVars,
                   voteVars, syncVars, items, invoked, flushVars>>
    /\ UNCHANGED afterFlushVars

\* tp.shutdown(wait=True) returns and with it parallel_call
Shutdown ==
    /\ mode = "flush"
    /\ pc = "shutdown"
    /\ Joined(tasks, Len(items))
    /\ pc' = "report"
    /\ UNCHANGED <<mode, site, search_result, parseVars, askVars, voteVars,
                   syncVars, callVars, flushVars>>
    /\ UNCHANGED afterFlushVars

\* README.md is written: a settled row is shown with its cover when
\* d_mal_images has its mal_id
Render ==
    /\ mode = "flush"
    /\ pc = "report"
    /\ readme' = Some({ r.mal_id[1] :
                          r \in { r \in Rows(d_animes) :
                                    /\ r.mal_id # None
                                    /\ r.mal_id[1] \in d_mal_images } })
    /\ pc' = "upload"
    /\ UNCHANGED <<mode, site, search_result, parseVars, askVars, voteVars,
                   syncVars, callVars, files, d_mal_images, assets, flush>>
    /\ UNCHANGED afterFlushVars

\* upload_directory_as_directory: table.parquet, README.md and the cover
\* files of the directory are pushed
Upload ==
    /\ mode = "flush"
    /\ pc = "upload"
    /\ repo' = Snapshot(d_animes)
    /\ assets' = [i \in CoverIds |->
                      IF files[i] # "absent" THEN files[i] ELSE assets[i]]
    /\ has_update' = FALSE
    /\ pushes' = pushes + 1
    /\ pc' = "done"
    /\ UNCHANGED <<mode, site, search_result, parseVars, askVars, voteVars,
                   sync_mode, change_items, d_animes, _last_update,
                   _total_count, now, limiter, idx, calls, errors, run,
                   callVars, files, d_mal_images, readme, flush>>
    /\ UNCHANGED afterFlushVars

NextFlush ==
    \/ BeginFlush
    \/ Submit
    \/ \E k \in 1..Len(tasks) : TaskStart(k)
    \/ \E k \in 1..Len(tasks) : TaskFileExists(k)
    \/ \E k \in 1..Len(tasks) : TaskDownloads(k)
    \/ \E k \in 1..Len(tasks) : TaskWrites(k)
    \/ \E k \in 1..Len(tasks) : TaskDownloaded(k)
    \/ \E k \in 1..Len(tasks) : TaskDownloadFails(k)
    \/ \E k \in 1..Len(tasks) : TaskCleanup(k)
    \/ \E k \in 1..Len(tasks) : TaskEnds(k)
    \/ Shutdown
    \/ Render
    \/ Upload

SpecFlush == InitFlush /\ [][NextFlush]_vars

(* Claims about the flush.                                                 *)

\* C13: when a cover-image download fails during a flush, the partially
\* written destination file is removed and the error propagates out of the
\* asset stage, so that this flush is aborted before the report is rendered
\* and the snapshot is pushed.
C13_CoverFailureAbortsFlush ==
    (mode = "flush" /\ \E k \in 1..Len(tasks) : tasks[k] = "raised") =>
        /\ \A k \in 1..Len(tasks) :
               tasks[k] = "raised" => files[Dst(items[k])] = "absent"
        /\ pc \notin {"upload", "done"}
        /\ readme = None
        /\ has_update

\* no other item of this flush has the destination file of item k
OwnDst(k) ==
    \A j \in 1..Len(items) : j # k => Dst(items[j]) # Dst(items[k])

\* what does hold: the file of a failed download is removed (unless another
\* item has the same destination file), the table is as it was, and the
\* flush goes on to push the table without that cover
CoverFailureLeavesFlushRunning ==
    (mode = "flush" /\ \E k \in 1..Len(tasks) : tasks[k] = "raised") =>
        /\ \A k \in 1..Len(tasks) :
               tasks[k] = "raised" =>
                   /\ OwnDst(k) =>
                          /\ files[Dst(items[k])] = "absent"
                          /\ Dst(items[k]) \notin d_mal_images
                   /\ d_animes[items[k].page_id] = Some(items[k])
        /\ pc \in {"submit", "shutdown", "report", "upload", "done"}
        /\ pc = "done" => repo = Snapshot(d_animes) /\ ~has_update

\* parallel_call has returned to _deploy
Returned == mode = "flush" /\ pc \in {"report", "upload", "done"}

\* the task of item k has ended, by a return or by an exception
Ended(ts, k) == k <= Len(ts) /\ ts[k] \in {"finished", "raised"}

\* C17: runner isolation.  For every collection of work items and every
\* subset of items whose function raises, parallel_call invokes the function
\* exactly once on every item: never twice, and once on each when the call
\* is over.  An exception in the task of one item changes the task of no
\* other item, and the call neither returns nor raises before all items
\* have been attempted.
C17_RunnerIsolation ==
    /\ [](mode = "flush" =>
            /\ \A k \in 1..Len(items) :
                   /\ invoked[k] <= 1
                   /\ invoked[k] = 1 <=> (k <= Len(tasks) /\ tasks[k] # "queued")
            /\ pc \in {"idle", "submit", "shutdown", "report", "upload",
                        "done"}
            /\ Returned =>
                   \A k \in 1..Len(items) : invoked[k] = 1 /\ Ended(tasks, k))
    /\ [][ mode = "flush" =>
             \A k \in 1..Len(tasks) :
                 (tasks[k] # "raised" /\ Len(tasks') = Len(tasks)
                      /\ tasks'[k] = "raised") =>
                     /\ pc' = pc
                     /\ \A j \in 1..Len(tasks) :
                            j # k => tasks'[j] = tasks[j] ]_vars

\* of three items the first raised while the other two were called after
\* it and returned, and then the call returned
C17_Witness ==
    /\ Returned /\ pc = "report"
    /\ Len(items) = 3
    /\ tasks = <<"raised", "finished", "finished">>
    /\ invoked = <<1, 1, 1>>

\* C18: parallel_call returns only after the task of every submitted item
\* has ended; the completed-count never decreases, grows by exactly one for
\* each task that ends, by a return or by an exception, and equals the
\* number of items when the call returns.
C18_CompletedCount ==
    /\ [](mode = "flush" =>
            /\ pg = Cardinality({ k \in 1..Len(tasks) : Ended(tasks, k) })
            /\ Returned =>
                   /\ pg = Len(items)
                   /\ \A k \in 1..Len(items) : Ended(tasks, k))
    /\ [][ (mode = "flush" /\ flush' = flush) =>
             /\ pg' \in {pg, pg + 1}
             /\ pg' = pg + 1 <=>
                    \E k \in 1..Len(tasks) :
                        ~Ended(tasks, k) /\ Ended(tasks', k) ]_vars

\* of two items one raised and one returned; the call returned with a count
\* of two and the flush went on to its upload
C18_Witness ==
    /\ Returned /\ pc = "done"
    /\ Len(items) = 2 /\ pg = 2
    /\ \E k \in 1..2 : tasks[k] = "raised" /\ tasks[3 - k] = "finished"

\* C28: during a flush, under every interleaving of the cover-download
\* callbacks, a path is recorded in d_mal_images only for a file that exists
\* and is completely downloaded when the snapshot is pushed, including when
\* two table records map to the same destination file and one of the two
\* concurrent downloads fails and removes the file.
C28_RecordedCoverIsComplete ==
    (mode = "flush" /\ pc \in {"report", "upload", "done"}) =>
        \A i \in d_mal_images : files[i] = "full"

\* what does hold: the recorded covers are complete when every item of the
\* flush has a destination file of its own
RecordedCoverIsCompleteOwnDst ==
    (mode = "flush" /\ pc \in {"report", "upload", "done"}
       /\ \A k \in 1..Len(items) : OwnDst(k)) =>
        \A i \in d_mal_images : files[i] = "full"

---------------------------------------------------------------------------
(* get_items_from_myanimelist of utils/mal.py; subsplease/llm.py has a     *)
(* copy of it, line by line the same.                                      *)

\* time.sleep(5.0)
backoff == 5

\* the 429 answers in a row that are looked at
Max429 == 3

\* the longest result of the catalog API that is looked at
MaxItems == 3

\* str.lower(), letter by letter
Letters ==
    {"T", "V", "M", "O", "A", "N", "t", "v", "m", "o", "a", "n", "i", "e",
     "x", " "}

LowerOf == [c \in Letters |->
    CASE c = "T" -> "t" [] c = "V" -> "v" [] c = "M" -> "m" [] c = "O" -> "o"
      [] c = "A" -> "a" [] c = "N" -> "n" [] OTHER -> c]

lower(text) == [k \in 1..Len(text) |-> LowerOf[text[k]]]

\* type_map = {'tv': 0, 'movie': 1, 'ova': 2, 'ona': 2}: its keys
type_map ==
    { <<"t", "v">>, <<"m", "o", "v", "i", "e">>, <<"o", "v", "a">>,
      <<"o", "n", "a">> }

\* the type is compared as it is written
TypeAllowedAsWritten(type) == type # None /\ type[1] # <<>> /\ type[1] \in type_map

\* not (not pyaitem['type'] or pyaitem['type'].lower() not in type_map)
TypeAllowed(type) ==
    type # None /\ type[1] # <<>> /\ lower(type[1]) \in type_map

\* the loop over jikan_items from position k on
RECURSIVE FilterItems(_, _, _, _)
FilterItems(result, k, kept, exist_mal_ids) ==
    IF k > Len(result) THEN kept
    ELSE IF ~TypeAllowed(result[k].type)
         THEN FilterItems(result, k + 1, kept, exist_mal_ids)
    ELSE IF result[k].mal_id \in exist_mal_ids
         THEN FilterItems(result, k + 1, kept, exist_mal_ids)
    ELSE FilterItems(result, k + 1, Append(kept, result[k]),
                     exist_mal_ids \cup {result[k].mal_id})

\* every HTTP error is answered by a sleep and another request
RetriesAnyHttpError(resp) == resp.exc = "HTTPError"

\* except HTTPError as err: if err.response.status_code == 429
Retries(resp) == resp.exc = "HTTPError" /\ resp.code = 429

\* what jikan_client.search_anime may do: answer, raise an HTTPError with a
\* status code, raise another error
Answer == [exc |-> "none", code |-> 200]
Failures ==
    { [exc |-> "HTTPError", code |-> 429],
      [exc |-> "HTTPError", code |-> 404],
      [exc |-> "HTTPError", code |-> 500],
      [exc |-> "ConnectionError", code |-> 0] }

\* the types of the entries: TV, Movie, ona, a type that is not in type_map,
\* the empty text and null
Types ==
    { Some(<<"T", "V">>), Some(<<"M", "o", "v", "i", "e">>),
      Some(<<"o", "n", "a">>), Some(<<"t", "v", " ", "x">>), Some(<<>>),
      None }

Entries == [mal_id : {1, 2}, type : Types]

ApiResults == UNION { [1..n -> Entries] : n \in 0..MaxItems }

InitMal ==
    /\ mode = "mal"
    /\ pc = "request"
    /\ title \in { <<"a">> }
    /\ jikan_items \in ApiResults
    /\ queries = <<>>
    /\ response = None
    /\ slept = 0
    /\ retval = None
    /\ site \in {"fancaps"}
    /\ search_result = <<>>
    /\ IdleParse /\ IdleAsk /\ IdleVote /\ IdleSync /\ IdleCall /\ IdleFlush
    /\ IdleAfterMal

\* search_anime raises; a 429 is slept on and the loop goes round, another
\* error leaves the function
SearchRaises ==
    /\ mode = "mal"
    /\ pc = "request"
    /\ \E resp \in Failures :
          /\ Retries(resp) => Len(queries) < Max429
          /\ response' = Some(resp)
          /\ queries' = Append(queries, title)
          /\ IF Retries(resp)
             THEN /\ slept' = slept + backoff
                  /\ pc' = "request"
                  /\ retval' = retval
             ELSE /\ slept' = slept
                  /\ pc' = "raised"
                  /\ retval' = Some([raised |-> TRUE, error |-> resp,
                                     value |-> <<>>])
    /\ UNCHANGED <<mode, site, search_result, parseVars, askVars, voteVars,
                   syncVars, callVars, flushVars, title, jikan_items>>
    /\ UNCHANGED afterMalVars

\* search_anime answers: the result is filtered and returned
SearchAnswers ==
    /\ mode = "mal"
    /\ pc = "request"
    /\ response' = Some(Answer)
    /\ queries' = Append(queries, title)
    /\ retval' = Some([raised |-> FALSE, error |-> Answer,
                       value |-> FilterItems(jikan_items, 1, <<>>, {})])
    /\ pc' = "returned"
    /\ UNCHANGED <<mode, site, search_result, parseVars, askVars, voteVars,
                   syncVars, callVars, flushVars, title, jikan_items, slept>>
    /\ UNCHANGED afterMalVars

NextMal ==
    \/ SearchRaises
    \/ SearchAnswers

SpecMal == InitMal /\ [][NextMal]_vars

(* Claims about get_items_from_myanimelist.                                *)

\* two letters that differ in case at most
SameLetter(a, b) ==
    \/ a = b
    \/ \E pair \in { <<"T", "t">>, <<"V", "v">>, <<"M", "m">>, <<"O", "o">>,
                     <<"A", "a">>, <<"N", "n">> } :
           {a, b} = {pair[1], pair[2]}

\* the type is tv, movie, ova or ona, whatever the case of its letters
IsAllowedType(type) ==
    /\ type # None
    /\ \E w \in { <<"t", "v">>, <<"m", "o", "v", "i", "e">>, <<"o", "v", "a">>,
                  <<"o", "n", "a">> } :
           /\ Len(w) = Len(type[1])
           /\ \A k \in 1..Len(w) : SameLetter(w[k], type[1][k])

\* position k of the API result holds the first entry of allowed type with
\* its mal_id
IsFirstAllowed(k) ==
    /\ IsAllowedType(jikan_items[k].type)
    /\ \A j \in 1..(k - 1) :
           IsAllowedType(jikan_items[j].type) =>
               jikan_items[j].mal_id # jikan_items[k].mal_id

FirstAllowed == { k \in 1..Len(jikan_items) : IsFirstAllowed(k) }

\* the i-th position of FirstAllowed, in the order of the API result
NthFirstAllowed(i) ==
    CHOOSE k \in FirstAllowed :
        Cardinality({ j \in FirstAllowed : j < k }) = i - 1

\* C15: get_items_from_myanimelist returns exactly the subsequence of the API
\* result made of the first occurrence of each mal_id among the entries whose
\* type is, case-insensitively, tv, movie, ova or ona: the order is kept, no
\* mal_id comes twice, no entry of another or missing type is included, and
\* no allowed-type mal_id of the API result is missing.
C15_FirstOccurrencesOfAllowedTypes ==
    (mode = "mal" /\ pc = "returned") =>
        LET out == retval[1].value
        IN  /\ Len(out) = Cardinality(FirstAllowed)
            /\ \A i \in 1..Len(out) : out[i] = jikan_items[NthFirstAllowed(i)]
            /\ \A i, j \in 1..Len(out) :
                   i # j => out[i].mal_id # out[j].mal_id
            /\ \A i \in 1..Len(out) : IsAllowedType(out[i].type)
            /\ \A k \in 1..Len(jikan_items) :
                   IsAllowedType(jikan_items[k].type) =>
                       \E i \in 1..Len(out) :
                           out[i].mal_id = jikan_items[k].mal_id

\* the result had an entry of a type outside the list, a null type, and the
\* same mal_id twice with allowed types, the first in capitals: the entry in
\* capitals alone is returned
C15_Witness ==
    /\ mode = "mal" /\ pc = "returned"
    /\ Len(jikan_items) = 3
    /\ jikan_items[1].type \in {None, Some(<<"t", "v", " ", "x">>)}
    /\ jikan_items[2] = [mal_id |-> 1, type |-> Some(<<"T", "V">>)]
    /\ jikan_items[3] = [mal_id |-> 1, type |-> Some(<<"o", "n", "a">>)]
    /\ retval[1].value = << jikan_items[2] >>

\* C16: an HTTP 429 of the catalog API is never visible to the caller of
\* get_items_from_myanimelist.  After each 429 the function sleeps the fixed
\* backoff and sends the same query again, without a cap on the attempts, so
\* k answers 429 in a row followed by a success return the result of that
\* success; an HTTP error other than 429 leaves the function when it first
\* occurs, without another request.
C16_Only429IsRetried ==
    /\ []((mode = "mal" /\ retval # None) =>
            /\ \A k \in 1..Len(queries) : queries[k] = title
            /\ slept = backoff * (Len(queries) - 1)
            /\ retval[1].raised =>
                   /\ ~(retval[1].error.exc = "HTTPError"
                            /\ retval[1].error.code = 429)
                   /\ retval[1].error = response[1]
            /\ ~retval[1].raised =>
                   retval[1].value = FilterItems(jikan_items, 1, <<>>, {}))
    /\ [][ (mode = "mal" /\ response' # response) =>
             /\ queries' = Append(queries, title)
             /\ IF response'[1].exc = "HTTPError" /\ response'[1].code = 429
                THEN pc' = "request" /\ retval' = None
                         /\ slept' = slept + backoff
                ELSE slept' = slept /\ retval' # None /\ pc' # "request"
                         /\ retval'[1].raised = (response'[1].exc # "none") ]_vars

\* the API answered 429 as often as is looked at, then 200: the function
\* returned the filtered result after that many sleeps
C16_Witness ==
    /\ mode = "mal" /\ pc = "returned"
    /\ Len(queries) = Max429 + 1
    /\ slept = backoff * Max429
    /\ retval[1].value # <<>>

---------------------------------------------------------------------------
(* sync of erairaws/lst.py with iter_anime_items of erairaws/info.py.      *)

\* if count < 100: raise ValueError
min_items == 100

\* the longest anime list page that is looked at
MaxRows == 101

\* the listing is never found too short
TooShortNever(n) == FALSE

\* if count < 100
TooShort(n) == n < min_items

\* the environments erairaws sync is started in: with or without the cookie
EraiEnvironments == { {"ERAI_RAW_COOKIE"}, {} }

InitErai ==
    /\ mode = "erai"
    /\ pc = "start"
    /\ rows \in 0..MaxRows
    /\ counted = 0 /\ anime_items = 0 /\ fetched = 0 /\ anime_records = 0
    /\ remote \in {"missing", "old"}
    /\ site = "erairaws"
    /\ search_result = <<>>
    /\ IdleParse /\ IdleAsk /\ IdleVote /\ IdleSync /\ IdleCall /\ IdleFlush
    /\ IdleMal /\ IdleRp
    /\ environ \in EraiEnvironments
    /\ IdleAfterEnv

\* sync up to the listing: a dataset repository that does not exist is
\* created and its .gitattributes written, then the session is made from
\* the cookie of the environment
Prepare ==
    /\ mode = "erai"
    /\ pc = "start"
    /\ remote' = IF remote = "missing" THEN "created" ELSE remote
    /\ pc' = IF get_session(environ, FALSE) = KeyError
             THEN "raised" ELSE "listing"
    /\ UNCHANGED <<mode, site, search_result, parseVars, askVars, voteVars,
                   syncVars, callVars, laterVars, flushVars, malVars, rpVars, rows,
                   counted, anime_items, fetched, anime_records>>

\* iter_anime_items yields a row and list() takes it
Yield ==
    /\ mode = "erai"
    /\ pc = "listing"
    /\ counted < rows
    /\ counted' = counted + 1
    /\ anime_items' = anime_items + 1
    /\ UNCHANGED <<mode, pc, site, search_result, parseVars, askVars,
                   voteVars, syncVars, callVars, laterVars, flushVars, malVars, rpVars,
                   rows, fetched, anime_records, remote>>

\* the rows are exhausted: iter_anime_items raises on a short listing, and
\* the list under construction is lost; else anime_items is assigned
ListingEnds ==
    /\ mode = "erai"
    /\ pc = "listing"
    /\ counted = rows
    /\ IF TooShort(counted)
       THEN pc' = "raised" /\ anime_items' = 0
       ELSE pc' = "fetch" /\ anime_items' = anime_items
    /\ UNCHANGED <<mode, site, search_result, parseVars, askVars, voteVars,
                   syncVars, callVars, laterVars, flushVars, malVars, rpVars, rows,
                   counted, fetched, anime_records, remote>>

\* _fn_x: the detail page is fetched and a record appended
DetailRecorded ==
    /\ mode = "erai"
    /\ pc = "fetch"
    /\ fetched < anime_items
    /\ fetched' = fetched + 1
    /\ anime_records' = anime_records + 1
    /\ UNCHANGED <<mode, pc, site, search_result, parseVars, askVars,
                   voteVars, syncVars, callVars, laterVars, flushVars, malVars, rpVars,
                   rows, counted, anime_items, remote>>

\* _fn_x: the detail page has no MAL id, or get_anime_info raises and the
\* error stays in the task of parallel_call
DetailSkipped ==
    /\ mode = "erai"
    /\ pc = "fetch"
    /\ fetched < anime_items
    /\ fetched' = fetched + 1
    /\ UNCHANGED <<mode, pc, site, search_result, parseVars, askVars,
                   voteVars, syncVars, callVars, laterVars, flushVars, malVars, rpVars,
                   rows, counted, anime_items, anime_records, remote>>

\* the tables, posters and README.md are written and uploaded
Publish ==
    /\ mode = "erai"
    /\ pc = "fetch"
    /\ fetched = anime_items
    /\ anime_records > 0
    /\ remote' = "synced"
    /\ pc' = "done"
    /\ UNCHANGED <<mode, site, search_result, parseVars, askVars, voteVars,
                   syncVars, callVars, laterVars, flushVars, malVars, rpVars, rows,
                   counted, anime_items, fetched, anime_records>>

\* writing the tables raises (sort_values on a frame without rows has no
\* column 'mal_id'), or the upload does
PublishRaises ==
    /\ mode = "erai"
    /\ pc = "fetch"
    /\ fetched = anime_items
    /\ pc' = "raised"
    /\ UNCHANGED <<mode, site, search_result, parseVars, askVars, voteVars,
                   syncVars, callVars, laterVars, flushVars, malVars, rpVars, eraiVars>>

NextErai ==
    \/ Prepare
    \/ Yield
    \/ ListingEnds
    \/ DetailRecorded
    \/ DetailSkipped
    \/ Publish
    \/ PublishRaises

SpecErai == InitErai /\ [][NextErai]_vars

(* Claims about erairaws sync.                                             *)

ShortListing == mode = "erai" /\ rows < min_items

\* C19 as stated: when the erai-raws listing has fewer than 100 entries,
\* iter_anime_items raises and sync aborts before any detail page is
\* fetched, any record is accumulated, or anything is pushed to the storage
\* backend.
C19_ShortListingAbortsBeforeAnyPush ==
    [][ ShortListing =>
          /\ fetched' = 0 /\ anime_records' = 0
          /\ (pc = "listing" /\ counted = rows) => pc' = "raised"
          /\ pc' \in {"listing", "raised"}
          /\ remote' = remote ]_vars

\* C19 amended: when the erai-raws listing has fewer than 100 entries,
\* iter_anime_items raises once the rows are exhausted and sync aborts before
\* any detail page is fetched, any record is accumulated, or any snapshot is
\* uploaded; the one write to the storage backend that such a run can have
\* made is the creation of a dataset repository that did not exist, with its
\* .gitattributes, which sync does before it fetches the listing.
C19_ShortListingAbortsBeforeFetch ==
    [][ ShortListing =>
          /\ fetched' = 0 /\ anime_records' = 0
          /\ (pc = "listing" /\ counted = rows) => pc' = "raised"
          /\ pc' \in {"listing", "raised"}
          /\ remote' # "synced"
          /\ remote' # remote =>
                 pc = "start" /\ remote = "missing" /\ remote' = "created" ]_vars

\* a listing of 99 rows was read to its end and sync was left by the error;
\* the dataset repository had been created before
C19_Witness ==
    /\ mode = "erai" /\ pc = "raised"
    /\ rows = min_items - 1 /\ counted = rows
    /\ fetched = 0 /\ anime_records = 0 /\ anime_items = 0
    /\ remote = "created"

---------------------------------------------------------------------------
(* get_full_info_for_replace of subsplease/rp.py.                          *)

\* the most releases (batches and episodes) of a show that are looked at
MaxReleases == 3

\* release timestamps, counted in half years since 1970: two of 2019 and
\* two of 2020
ReleaseTimes == {98, 99, 100, 101}

\* datetime.datetime.fromtimestamp(t).year
YearOf(t) == 1970 + (t \div 2)

\* the loop over [*subs_info['batch'], *subs_info['episode']]
RECURSIVE MinTimestamp(_, _)
MinTimestamp(releases, min_timestamp) ==
    IF Len(releases) = 0 THEN min_timestamp
    ELSE MinTimestamp(Tail(releases),
             IF min_timestamp = None \/ Head(releases) < min_timestamp[1]
             THEN Some(Head(releases)) ELSE min_timestamp)

\* year = datetime.datetime.fromtimestamp(min_timestamp).year
\*            if min_timestamp else None
ReplaceYear(mal, min_timestamp) ==
    IF min_timestamp # None THEN Some(YearOf(min_timestamp[1])) ELSE None

get_full_info_for_replace(subs, mal) ==
    [mal_id |-> mal.mal_id,
     title |-> mal.title,
     reason |-> <<"Admin specified ", subs.url, " to mal #">>
                    \o IntText(mal.mal_id),
     mal |-> mal,
     year |-> ReplaceYear(mal, MinTimestamp(subs.releases, None))]

\* the show pages: get_info_from_subsplease(page_url), without its prompt
SubsInfos ==
    [url : {"p1"},
     releases : UNION { [1..n -> ReleaseTimes] : n \in 0..MaxReleases }]

\* the catalog records: jikan_client.get_anime_full(mal_id)
MalInfos ==
    [mal_id : {7, 8}, title : {<<"t">>},
     year : {None, Some(2018), Some(2019), Some(2020)}]

InitReplace ==
    /\ mode = "replace"
    /\ pc = "call"
    /\ subs_info \in SubsInfos
    /\ mal_info \in { Some(m) : m \in MalInfos }
    /\ rp_info = None
    /\ site = "rp"
    /\ search_result = <<>>
    /\ IdleParse /\ IdleAsk /\ IdleVote /\ IdleSync /\ IdleCall /\ IdleLater /\ IdleFlush
    /\ IdleMal /\ IdleErai

GetFullInfoForReplace ==
    /\ mode = "replace"
    /\ pc = "call"
    /\ rp_info' = Some(get_full_info_for_replace(subs_info, mal_info[1]))
    /\ pc' = "returned"
    /\ UNCHANGED <<mode, site, search_result, parseVars, askVars, voteVars,
                   syncVars, callVars, laterVars, flushVars, malVars, eraiVars,
                   subs_info, mal_info>>

\* get_info_from_subsplease or get_anime_full raises
GetFullInfoForReplaceRaises ==
    /\ mode = "replace"
    /\ pc = "call"
    /\ pc' = "raised"
    /\ UNCHANGED <<mode, site, search_result, parseVars, askVars, voteVars,
                   syncVars, callVars, laterVars, flushVars, malVars, eraiVars, rpVars>>

NextReplace ==
    \/ GetFullInfoForReplace
    \/ GetFullInfoForReplaceRaises

SpecReplace == InitReplace /\ [][NextReplace]_vars

(* Claims about get_full_info_for_replace.                                 *)

\* the earliest release of the show, if it has a release
HasRelease == Len(subs_info.releases) > 0

Earliest ==
    CHOOSE t \in { subs_info.releases[k] : k \in 1..Len(subs_info.releases) } :
        \A k \in 1..Len(subs_info.releases) : t <= subs_info.releases[k]

OverrideReturned == mode = "replace" /\ pc = "returned"

\* C20: get_full_info_for_replace(page_url, mal_id) returns a judgment whose
\* mal_id and title come from the full catalog record and whose reason cites
\* the manual override; its year is the year of the catalog record when the
\* record has one, and is computed from the earliest batch or episode
\* release of the item only if the catalog record has no year (null when
\* there is no release either).
C20_OverrideYearFromCatalogFirst ==
    OverrideReturned =>
        /\ rp_info[1].mal_id = mal_info[1].mal_id
        /\ rp_info[1].title = mal_info[1].title
        /\ rp_info[1].reason[1] = "Admin specified "
        /\ rp_info[1].year =
               IF mal_info[1].year # None THEN mal_info[1].year
               ELSE IF HasRelease THEN Some(YearOf(Earliest))
               ELSE None

\* what does hold: the year is that of the earliest release, and null
\* without a release, whatever the year of the catalog record
OverrideYearFromReleases ==
    OverrideReturned =>
        /\ rp_info[1].mal_id = mal_info[1].mal_id
        /\ rp_info[1].title = mal_info[1].title
        /\ rp_info[1].reason[1] = "Admin specified "
        /\ rp_info[1].mal = mal_info[1]
        /\ rp_info[1].year =
               IF HasRelease THEN Some(YearOf(Earliest)) ELSE None

---------------------------------------------------------------------------
(* get_anime_info of erairaws/info.py.                                     *)

\* the most release tables of an anime page that are looked at
MaxTables == 3

\* the qualities a release table may be labelled with (its data-title)
Tiers == {"1080p", "720p", "SD"}

\* max(x['published_at'] for x in resources) if resources else None
MaxPublished(resources) ==
    IF resources = <<>> THEN None
    ELSE Some(CHOOSE t \in { resources[k].published_at : k \in 1..Len(resources) } :
                 \A k \in 1..Len(resources) : resources[k].published_at <= t)

\* min(x['published_at'] for x in resources) if resources else None
MinPublished(resources) ==
    IF resources = <<>> THEN None
    ELSE Some(CHOOSE t \in { resources[k].published_at : k \in 1..Len(resources) } :
                 \A k \in 1..Len(resources) : resources[k].published_at >= t)

\* the dict get_anime_info returns for a page: one resource per table of
\* the release pane, in the order of the page
get_anime_info(page) ==
    [mal_id |-> page.mal_id,
     rss_url |-> page.rss_url,
     resources |-> page.tables,
     last_published_at |-> MaxPublished(page.tables),
     published_at |-> MinPublished(page.tables)]

\* the tables of a release pane: a release has a quality tier among its
\* categories and a time of publication
ReleaseTables ==
    [categories : Tiers, published_at : {1, 2}]

TableLists ==
    UNION { [1..n -> ReleaseTables] : n \in 0..MaxTables }

DetailPages ==
    [mal_id : {None, Some(5)}, rss_url : {None, Some("feed")},
     tables : TableLists]

InitInfo ==
    /\ mode = "info"
    /\ pc = "call"
    /\ detail_page \in { Some(page) : page \in DetailPages }
    /\ feed_queries = <<>>
    /\ anime_info = None
    /\ site = "erairaws"
    /\ search_result = <<>>
    /\ IdleParse /\ IdleAsk /\ IdleVote /\ IdleSync /\ IdleCall /\ IdleFlush
    /\ IdleMal /\ IdleErai /\ IdleRp /\ IdleEnv /\ IdleAppend

\* the page is fetched through session and parsed; session_rss is not used
GetAnimeInfo ==
    /\ mode = "info"
    /\ pc = "call"
    /\ anime_info' = Some(get_anime_info(detail_page[1]))
    /\ pc' = "returned"
    /\ UNCHANGED <<mode, site, search_result, parseVars, askVars, voteVars,
                   syncVars, callVars, flushVars, malVars, eraiVars, rpVars,
                   envVars, appendVars, detail_page, feed_queries>>

\* the request fails or the page is not of the expected shape
GetAnimeInfoRaises ==
    /\ mode = "info"
    /\ pc = "call"
    /\ pc' = "raised"
    /\ UNCHANGED <<mode, site, search_result, parseVars, askVars, voteVars,
                   syncVars, callVars, flushVars, malVars, eraiVars, rpVars,
                   envVars, appendVars, infoVars>>

NextInfo ==
    \/ GetAnimeInfo
    \/ GetAnimeInfoRaises

SpecInfo == InitInfo /\ [][NextInfo]_vars

(* Claims about get_anime_info.                                            *)

\* the quality tiers, best first
TierOrder == <<"1080p", "720p", "SD">>

\* the best tier that some table of the page has
HasTier(page, tier) ==
    \E k \in 1..Len(page.tables) : page.tables[k].categories = tier

BestTier(page) ==
    TierOrder[CHOOSE i \in 1..Len(TierOrder) :
                 /\ HasTier(page, TierOrder[i])
                 /\ \A j \in 1..(i - 1) : ~HasTier(page, TierOrder[j])]

\* C22: the releases are looked up per quality tier in the fixed order
\* 1080p, 720p, SD, stopping at the first tier that has any entry: the
\* entries returned are those of that tier alone (with none of 1080p and
\* one of 720p, the 720p entry and nothing of SD), and entries of different
\* tiers are never merged.
C22_TierFallback ==
    (mode = "info" /\ pc = "returned" /\ detail_page[1].tables # <<>>) =>
        \A k \in 1..Len(anime_info[1].resources) :
            anime_info[1].resources[k].categories = BestTier(detail_page[1])

\* what the code does: every table of the release pane is returned,
\* whatever its tier, and no request is sent through session_rss
AllTablesReturnedNoFeedQuery ==
    (mode = "info" /\ pc = "returned") =>
        /\ anime_info[1].resources = detail_page[1].tables
        /\ feed_queries = <<>>

---------------------------------------------------------------------------
(* The workers of erairaws sync: _fn_x of erairaws/lst.py, run for every   *)
(* item of the listing by parallel_call.                                   *)

\* anime_items, the (title, page_url) pairs of the listing
AnimeItems == <<"a1", "a2", "a3">>

\* what get_anime_info may return for the page of item a: with or without a
\* MAL id, with no, one or two resources
Resource(a, name) == [title |-> <<a, name>>]

FetchedInfos(a) ==
    [id : {a}, mal_id : {None, Some(5)},
     resources : { <<>>, <<Resource(a, "r1")>>,
                   <<Resource(a, "r1"), Resource(a, "r2")>> }]

\* {**info, 'poster_filename': f'{info["id"]}{ext}'}
AnimeRecord(info) ==
    [id |-> info.id, mal_id |-> info.mal_id, resources |-> info.resources,
     poster_filename |-> <<info.id, ".jpg">>]

\* {'mal_id': info['mal_id'], **item}
ItemRecord(info, j) ==
    [mal_id |-> info.mal_id, title |-> info.resources[j].title]

\* the lock is never found taken
LockFreeAlways(l) == TRUE

\* with lock: the block is entered when no thread holds the lock
LockFree(l) == l = 0

InitAppend ==
    /\ mode = "append"
    /\ pc = "submit"
    /\ site = "erairaws"
    /\ items = AnimeItems
    /\ tasks = <<>>
    /\ invoked = [k \in 1..Len(items) |-> 0]
    /\ pg = 0
    /\ infos = [k \in 1..Len(items) |-> None]
    /\ lock = 0
    /\ anime_record_list = <<>>
    /\ item_records = <<>>
    /\ cursor = [k \in 1..Len(items) |-> 0]
    /\ search_result = <<>>
    /\ IdleParse /\ IdleAsk /\ IdleVote /\ IdleSync /\ IdleFlush
    /\ IdleMal /\ IdleErai /\ IdleRp /\ IdleEnv /\ IdleInfo

\* info = get_anime_info(...) returns; an item without MAL id is skipped
FetchReturns(k) ==
    /\ mode = "append"
    /\ tasks[k] = "called"
    /\ \E info \in FetchedInfos(items[k]) :
          /\ infos' = [infos EXCEPT ![k] = Some(info)]
          /\ tasks' = [tasks EXCEPT ![k] =
                           IF Truthy(info.mal_id) THEN "waiting"
                           ELSE "returning"]
    /\ UNCHANGED <<mode, pc, site, search_result, parseVars, askVars,
                   voteVars, syncVars, flushVars, malVars, eraiVars, rpVars,
                   envVars, infoVars, items, invoked, pg, lock, anime_record_list,
                   item_records, cursor>>

\* get_anime_info raises
FetchRaises(k) ==
    /\ mode = "append"
    /\ tasks[k] = "called"
    /\ tasks' = [tasks EXCEPT ![k] = "raising"]
    /\ UNCHANGED <<mode, pc, site, search_result, parseVars, askVars,
                   voteVars, syncVars, flushVars, malVars, eraiVars, rpVars,
                   envVars, infoVars, items, invoked, pg, appendVars>>

\* with lock: the thread takes the lock
Acquire(k) ==
    /\ mode = "append"
    /\ tasks[k] = "waiting"
    /\ LockFree(lock)
    /\ lock' = k
    /\ tasks' = [tasks EXCEPT ![k] = "locked"]
    /\ UNCHANGED <<mode, pc, site, search_result, parseVars, askVars,
                   voteVars, syncVars, flushVars, malVars, eraiVars, rpVars,
                   envVars, infoVars, items, invoked, pg, infos, anime_record_list,
                   item_records, cursor>>

\* anime_records.append({...})
AppendAnime(k) ==
    /\ mode = "append"
    /\ tasks[k] = "locked"
    /\ anime_record_list' = Append(anime_record_list, AnimeRecord(infos[k][1]))
    /\ tasks' = [tasks EXCEPT ![k] = "items"]
    /\ UNCHANGED <<mode, pc, site, search_result, parseVars, askVars,
                   voteVars, syncVars, flushVars, malVars, eraiVars, rpVars,
                   envVars, infoVars, items, invoked, pg, infos, lock, item_records,
                   cursor>>

\* for item in info['resources']: item_records.append({...})
AppendItem(k) ==
    /\ mode = "append"
    /\ tasks[k] = "items"
    /\ cursor[k] < Len(infos[k][1].resources)
    /\ item_records' =
           Append(item_records, ItemRecord(infos[k][1], cursor[k] + 1))
    /\ cursor' = [cursor EXCEPT ![k] = @ + 1]
    /\ UNCHANGED <<mode, pc, site, search_result, parseVars, askVars,
                   voteVars, syncVars, flushVars, malVars, eraiVars, rpVars,
                   envVars, infoVars, callVars, infos, lock,
                   anime_record_list>>

\* the loop is over and the with block is left: the lock is released
Release(k) ==
    /\ mode = "append"
    /\ tasks[k] = "items"
    /\ cursor[k] = Len(infos[k][1].resources)
    /\ lock' = 0
    /\ tasks' = [tasks EXCEPT ![k] = "returning"]
    /\ UNCHANGED <<mode, pc, site, search_result, parseVars, askVars,
                   voteVars, syncVars, flushVars, malVars, eraiVars, rpVars,
                   envVars, infoVars, items, invoked, pg, infos, anime_record_list,
                   item_records, cursor>>

\* tp.shutdown(wait=True) returns and with it parallel_call
ParallelCallReturns ==
    /\ mode = "append"
    /\ pc = "shutdown"
    /\ Joined(tasks, Len(items))
    /\ pc' = "returned"
    /\ UNCHANGED <<mode, site, search_result, parseVars, askVars, voteVars,
                   syncVars, flushVars, malVars, eraiVars, rpVars, envVars,
                   infoVars, callVars, appendVars>>

NextAppend ==
    \/ Submit
    \/ \E k \in 1..Len(tasks) : TaskStart(k)
    \/ \E k \in 1..Len(tasks) : FetchReturns(k)
    \/ \E k \in 1..Len(tasks) : FetchRaises(k)
    \/ \E k \in 1..Len(tasks) : Acquire(k)
    \/ \E k \in 1..Len(tasks) : AppendAnime(k)
    \/ \E k \in 1..Len(tasks) : AppendItem(k)
    \/ \E k \in 1..Len(tasks) : Release(k)
    \/ \E k \in 1..Len(tasks) : TaskEnds(k)
    \/ ParallelCallReturns

SpecAppend == InitAppend /\ [][NextAppend]_vars

(* Claims about the workers of erairaws sync.                              *)

\* task k is inside the with block
InLockSection(k) == tasks[k] \in {"locked", "items"}

\* the number of records of item k in anime_records
RecordsOf(k) ==
    Cardinality({ i \in 1..Len(anime_record_list) :
                    anime_record_list[i].id = items[k] })

\* the item records of a list of anime records, anime after anime
RECURSIVE ResourcesOf(_)
ResourcesOf(records) ==
    IF records = <<>> THEN <<>>
    ELSE [j \in 1..Len(Head(records).resources) |->
             [mal_id |-> Head(records).mal_id,
              title |-> Head(records).resources[j].title]]
         \o ResourcesOf(Tail(records))

\* C25: every mutation of anime_records and item_records by the worker
\* callbacks happens while holding the single lock, so no two workers are
\* ever inside the append section at once; under every interleaving, after
\* parallel_call returns, anime_records holds exactly one record per
\* successfully fetched item with a MAL id and item_records holds exactly
\* the resources of those records, each anime's resources contiguous, with
\* no lost or duplicated append.
C25_AppendsUnderLock ==
    /\ [](mode = "append" =>
            /\ \A j, k \in 1..Len(tasks) :
                   InLockSection(j) /\ InLockSection(k) => j = k
            /\ \A k \in 1..Len(tasks) : InLockSection(k) => lock = k
            /\ pc = "returned" =>
                   /\ \A k \in 1..Len(items) :
                          RecordsOf(k) =
                              IF infos[k] # None /\ infos[k][1].mal_id # None
                              THEN 1 ELSE 0
                   /\ \A i \in 1..Len(anime_record_list) :
                          \E k \in 1..Len(items) :
                              /\ infos[k] # None
                              /\ anime_record_list[i] = AnimeRecord(infos[k][1])
                   /\ item_records = ResourcesOf(anime_record_list))
    /\ [][ (mode = "append"
              /\ <<anime_record_list, item_records>>'
                     # <<anime_record_list, item_records>>) =>
             \E k \in 1..Len(tasks) :
                 /\ lock = k /\ InLockSection(k) /\ lock' = k
                 /\ \/ /\ Len(anime_record_list') = Len(anime_record_list) + 1
                       /\ item_records' = item_records
                    \/ /\ Len(item_records') = Len(item_records) + 1
                       /\ anime_record_list' = anime_record_list ]_vars

\* parallel_call has returned: the third item was recorded before the
\* first, each with its two resources, and the second item's fetch raised
C25_Witness ==
    /\ mode = "append" /\ pc = "returned"
    /\ Len(anime_record_list) = 2
    /\ anime_record_list[1].id = "a3" /\ anime_record_list[2].id = "a1"
    /\ tasks[2] = "raised"
    /\ Len(item_records) = 4
    /\ item_records[1].title = <<"a3", "r1">>
    /\ item_records[3].title = <<"a1", "r1">>

---------------------------------------------------------------------------
(* The replies given to _parse_output.                                     *)

MaxLines == 5

ParseLinesAlphabet ==
    { <<>>,
      <<"mal_id", ":", "7">>,
      <<"mal_id", ":", "null">>,
      <<"mal_id", ":", "x">>,
      <<"title", ":", "x">>,
      <<"title", ":">>,
      <<"year", ":", "2", "0">>,
      <<"year", ":", "0", "7">>,
      <<"reason", ":", "x">>,
      <<"x">> }

ParseInputs ==
    UNION { [1..n -> ParseLinesAlphabet] : n \in 0..MaxLines }

InitParse ==
    /\ mode = "parse"
    /\ pc = "call"
    /\ output \in ParseInputs
    /\ pinfo = NoPinfo
    /\ site = "fancaps"
    /\ search_result = <<>>
    /\ IdleAsk
    /\ IdleVote
    /\ IdleSync
    /\ IdleExt

ParseOutput ==
    /\ mode = "parse"
    /\ pc = "call"
    /\ pinfo' = _parse_output(output)
    /\ pc' = IF pinfo'.ok THEN "returned" ELSE "raised"
    /\ UNCHANGED <<mode, output, site, search_result, askVars, voteVars,
                   syncVars>>
    /\ UNCHANGED extVars

NextParse == ParseOutput

SpecParse == InitParse /\ [][NextParse]_vars


---------------------------------------------------------------------------
(* Claims about _parse_output.                                             *)

\* a non-negative integer literal (no leading zero) or the null token
IsIntLiteralOrNull(s) ==
    \/ s = <<"null">>
    \/ IsDigitRun(s) /\ (Len(s) = 1 \/ s[1] # "0")

\* the line is the labelled field `label` of a reply
IsField(line, label) ==
    /\ HasLabel(line, label)
    /\ label \in {"mal_id", "year"} => IsIntLiteralOrNull(Tail2(line, 3))
    /\ label = "title" => Len(line) >= 3

\* The reply decomposes into the four labelled fields, in order, each on a
\* line of its own: besides blank lines, nothing comes before the reason.
FourFields(text) ==
    LET L == Strip(text)
    IN  \E a, b, c, d \in 1..Len(L) :
            /\ a < b /\ b < c /\ c < d
            /\ IsField(L[a], "mal_id") /\ IsField(L[b], "title")
            /\ IsField(L[c], "year") /\ IsField(L[d], "reason")
            /\ \A k \in 1..(d - 1) : k \notin {a, b, c} => L[k] = <<>>

\* the same, with no blank line anywhere before the reason
FourFieldsNoBlank(text) ==
    LET L == Strip(text)
    IN  /\ Len(L) >= 4
        /\ IsField(L[1], "mal_id") /\ IsField(L[2], "title")
        /\ IsField(L[3], "year") /\ IsField(L[4], "reason")

\* the same as FourFields, with the reason on the line right after the year
FourFieldsReasonAdjacent(text) ==
    LET L == Strip(text)
    IN  \E a, b, c \in 1..Len(L) :
            /\ a < b /\ b < c /\ c < Len(L)
            /\ IsField(L[a], "mal_id") /\ IsField(L[b], "title")
            /\ IsField(L[c], "year") /\ IsField(L[c + 1], "reason")
            /\ \A k \in 1..c : k \notin {a, b, c} => L[k] = <<>>

\* the reason label's text joined by newlines with every following line
RECURSIVE JoinLines(_)
JoinLines(lines) ==
    IF Len(lines) = 0 THEN <<>>
    ELSE <<"\n">> \o Head(lines) \o JoinLines(Tail(lines))

ReasonOf(text) ==
    LET L == Strip(text)
        d == CHOOSE k \in 1..Len(L) :
                 /\ HasLabel(L[k], "reason")
                 /\ \A j \in 1..(k - 1) : ~HasLabel(L[j], "reason")
    IN  Tail2(L[d], 3) \o JoinLines(Tail2(L, d + 1))

IsIntOrNone(v) == v = None \/ (Len(v) = 1 /\ v[1] \in Nat)

ParsedFieldsRight ==
    pinfo.ok =>
        /\ IsIntOrNone(pinfo.mal_id)
        /\ IsIntOrNone(pinfo.year)
        /\ pinfo.reason = ReasonOf(output)

\* C6: _parse_output returns a judgment if and only if the reply decomposes
\* into exactly the four labelled fields mal_id, title, year, reason in that
\* order, each on its own line (mal_id and year an integer literal or
\* null), and every other reply raises; on success mal_id and year are
\* integers or null and reason is the text after the label joined by
\* newlines with every following line.  Blank lines are not fields.
C6_ParseIffFourFields ==
    pc # "call" =>
        /\ pinfo.ok <=> FourFields(output)
        /\ ParsedFieldsRight

\* C6 read with no blank line allowed between the fields: the parser
\* returns a judgment for replies with a blank line before title or year.
C6_ParseIffFourFieldsNoBlank ==
    pc # "call" =>
        /\ pinfo.ok <=> FourFieldsNoBlank(output)
        /\ ParsedFieldsRight

\* What the parser accepts: blank lines are skipped before mal_id, title
\* and year, and the reason must be on the line right after the year.
ParseAcceptsReasonAdjacent ==
    pc # "call" =>
        /\ pinfo.ok <=> FourFieldsReasonAdjacent(output)
        /\ ParsedFieldsRight

ParseReturnedWithContinuation ==
    pc = "returned" /\ Len(Strip(output)) = 5 /\ pinfo.mal_id = Some(7)
        /\ pinfo.year = Some(20)

=============================================================================
